---- MODULE Spec2Model ----
(***************************************************************************)
(* Model of the oscilloscope host application:                             *)
(*   SerialHandler  - the serial acquisition state machine                 *)
(*   MainWindow     - run / stop / abort, continuous re-arming, the Bode   *)
(*                    sweep orchestrator and the Bode analysis             *)
(* The program is single threaded and event driven: every action below is  *)
(* one callback of the Qt event loop (a user command, a timer expiry or a  *)
(* readable notification of the serial port) run to completion, nested     *)
(* calls and synchronous signal emissions included.                        *)
(*                                                                         *)
(* Handlers are written as operators from a world record                   *)
(*   w = [sh, mw, port, obs]                                               *)
(* to the world they leave behind, so that a handler that calls another    *)
(* handler is the composition of the two operators.                        *)
(***************************************************************************)
EXTENDS Integers, Sequences, FiniteSets, TLC

VARIABLES
    sh,     \* the SerialHandler object's fields
    mw,     \* the MainWindow object's fields (those the handlers below use)
    port,   \* the serial line: host receive buffer, bytes the device still owes, frames written
    obs     \* history variables: what the last handler did (no program state)

vars == <<sh, mw, port, obs>>

----------------------------------------------------------------------------
(* Bounds of the model *)

\* user commands (clicks) the environment issues in one behaviour
MaxUser == 2
\* largest number of bytes the device hands over in one partial delivery
DevChunk == 150
\* single-shot timers of one kind that may be pending at once
MaxPending == 1

----------------------------------------------------------------------------
(* Program constants *)

DualLen == 200          \* bytes per channel of a dual read
SingleLen == 400        \* bytes of a single-channel read
AckLen == 1             \* the capture acknowledgment
BodeSkip == 20          \* leading samples the Bode analysis discards
DefaultRateIdx == 3     \* sampleRateCombo->setCurrentIndex(3), SerialHandler::sampleRateIdx = 3
DefaultTrigLevel == 2048

Min(a, b) == IF a < b THEN a ELSE b
Max(a, b) == IF a > b THEN a ELSE b
\* round() of the quotient a / b of a >= 0 and b > 0: halves go away from zero
RoundDiv(a, b) == (2 * a + b) \div (2 * b)

----------------------------------------------------------------------------
(* Byte buffers.  A buffer is a FIFO of bytes of which only the origin is  *)
(* kept: "old" bytes answer a command written before the latest start     *)
(* call, "cur" bytes answer a command of the current acquisition.  The     *)
(* device answers in order, so old bytes always precede cur bytes.         *)

EmptyBuf == [old |-> 0, cur |-> 0]
BufLen(b) == b.old + b.cur
\* QSerialPort::read(n): the first n bytes
BufTake(b, n) == [old |-> Min(n, b.old), cur |-> Min(n - Min(n, b.old), b.cur)]
BufDrop(b, n) == [old |-> b.old - Min(n, b.old), cur |-> b.cur - Min(n - Min(n, b.old), b.cur)]
BufCat(a, b) == [old |-> a.old + b.old, cur |-> a.cur + b.cur]
\* every byte requested so far belongs to an earlier acquisition
BufStale(b) == [old |-> b.old + b.cur, cur |-> 0]

----------------------------------------------------------------------------
(* The device side of the serial line.                                     *)
(* The device answers 'C' with one acknowledgment byte and 'D',a with the  *)
(* bytes of the read code a, as the host expects them:                     *)
(*   D,1 -> 200 (CH1 of a dual read)   D,2 -> 200 (CH2 of a dual read)     *)
(*   D,3 -> 400 (CH1 only)             D,4 -> 400 (CH2 only)               *)
(* It may deliver late, in pieces, or not at all.                          *)

DevReplyLen(frame) ==
    IF Len(frame) = 0 THEN 0
    ELSE IF frame[1] = "C" THEN AckLen
    ELSE IF frame[1] = "D" /\ Len(frame) >= 2
         THEN (IF frame[2] \in {1, 2} THEN DualLen
               ELSE IF frame[2] \in {3, 4} THEN SingleLen ELSE 0)
    ELSE 0

\* serial->write(frame): the frame goes out, the device owes its answer
Write(w, frame) ==
    IF Len(frame) = 0 THEN w
    ELSE [w EXCEPT !.port.out = Append(@, frame),
                   !.port.dev = [@ EXCEPT !.cur = @ + DevReplyLen(frame)]]

\* SerialHandler::sendCommand (the port is open while connected)
SendCommand(w, frame) == IF w.mw.isConnected THEN Write(w, frame) ELSE w

----------------------------------------------------------------------------
(* SerialHandler *)

AcqStates == {"Idle", "WaitingForDone", "WaitingForCh1", "WaitingForCh2", "Complete"}
Waiting == {"WaitingForDone", "WaitingForCh1", "WaitingForCh2"}

\* the value (int)acqState prints
StateNo(s) ==
    CASE s = "Idle" -> 0 [] s = "WaitingForDone" -> 1 [] s = "WaitingForCh1" -> 2
      [] s = "WaitingForCh2" -> 3 [] OTHER -> 4

Byte(n) == n % 256

\* a faulty variant of resetAcquisitionState: the state timeout is left running
ResetAcquisitionStateKeepsTimer(w) ==
    [w EXCEPT !.sh.acqState = "Idle",
              !.sh.acqDataLength = 200,
              !.sh.acqDualChannel = TRUE,
              !.sh.ch1Raw = EmptyBuf,
              !.sh.ch2Raw = EmptyBuf,
              !.sh.bytesNeeded = 0,
              !.sh.acqMode = 1,
              !.sh.acquisitionInProgress = FALSE]

\* SerialHandler::resetAcquisitionState
ResetAcquisitionState(w) ==
    [w EXCEPT !.sh.acqState = "Idle",
              !.sh.acqDataLength = 200,
              !.sh.acqDualChannel = TRUE,
              !.sh.ch1Raw = EmptyBuf,
              !.sh.ch2Raw = EmptyBuf,
              !.sh.bytesNeeded = 0,
              !.sh.acqMode = 1,
              !.sh.timeoutActive = FALSE,
              !.sh.acquisitionInProgress = FALSE]

\* the frame handleSetupStep writes in step n (none for the disabled offset steps)
SetupFrame(s, n) ==
    CASE n = 2 -> <<"T", Byte(s.trigSource), 0>>
      [] n = 3 -> <<"P", Byte(s.trigPolarity), 0>>
      [] n = 4 -> <<"L", Byte(s.trigLevel \div 256), Byte(s.trigLevel)>>
      [] n = 5 -> <<"F", Byte(s.acqMode), 0>>
      [] n = 6 -> <<"S", Byte(s.sampleRateIdx), 0>>
      [] n = 7 -> <<"C", 0, 0>>
      [] OTHER -> <<>>

\* a faulty variant of handleSetupStep: the capture command is written without starting
\* the state timeout
HandleSetupStepNoTimeout(w) ==
    LET n == w.sh.setupStep
        f == SetupFrame(w.sh, n)
        w1 == Write(w, f)
        w2 == IF Len(f) = 0 THEN w1
              ELSE [w1 EXCEPT !.obs.setupLog = Append(@, f)]
    IN  IF n \in 0..6
        THEN [w2 EXCEPT !.sh.setupStep = n + 1, !.sh.setupActive = TRUE]
        ELSE IF n = 7
        THEN [w2 EXCEPT !.sh.acqState = "WaitingForDone",
                        !.sh.bytesNeeded = 1]
        ELSE w

\* SerialHandler::handleSetupStep (history: obs.rearm, the state timeout was started)
HandleSetupStep(w) ==
    LET n == w.sh.setupStep
        f == SetupFrame(w.sh, n)
        w1 == Write(w, f)
        w2 == IF Len(f) = 0 THEN w1
              ELSE [w1 EXCEPT !.obs.setupLog = Append(@, f)]
    IN  IF n \in 0..6
        THEN [w2 EXCEPT !.sh.setupStep = n + 1, !.sh.setupActive = TRUE]
        ELSE IF n = 7
        THEN [w2 EXCEPT !.sh.acqState = "WaitingForDone",
                        !.sh.bytesNeeded = 1,
                        !.sh.timeoutActive = TRUE,
                        !.obs.rearm = TRUE]
        ELSE w

\* a faulty variant of sendSetupSequence: the step counter is not set back
SendSetupSequenceKeepsStep(w) == HandleSetupStep(w)

\* SerialHandler::sendSetupSequence
SendSetupSequence(w) == HandleSetupStep([w EXCEPT !.sh.setupStep = 0])

\* an acquisition is in flight: its setup frames are being paced out or it waits for bytes
InFlight(s) == s.setupActive \/ s.acqState \in Waiting

\* SerialHandler::startOscilloscopeAcquisition
StartOscilloscopeAcquisition(w, mode, dataLength, dualChannel) ==
    IF w.sh.acquisitionInProgress
    THEN [w EXCEPT !.obs.start = "rejected"]
    ELSE LET w1 == [w EXCEPT !.sh.acquisitionInProgress = TRUE]
             w2 == ResetAcquisitionState(w1)
             w3 == [w2 EXCEPT !.sh.acqMode = mode,
                              !.sh.acqDataLength = dataLength,
                              !.sh.acqDualChannel = dualChannel,
                              \* history: the request, the parameters in effect, a fresh log
                              !.obs.start = "accepted",
                              !.obs.req = [mode |-> mode, len |-> dataLength, dual |-> dualChannel,
                                           nested |-> w.obs.inCallback],
                              !.obs.snap = [trigSource |-> w.sh.trigSource,
                                            trigPolarity |-> w.sh.trigPolarity,
                                            trigLevel |-> w.sh.trigLevel,
                                            sampleRateIdx |-> w.sh.sampleRateIdx],
                              !.obs.setupLog = <<>>,
                              !.obs.emits = 0,
                              !.obs.aborted = FALSE,
                              !.port.rx = BufStale(@),
                              !.port.dev = BufStale(@)]
         IN  SendSetupSequence(w3)

\* SerialHandler::setProtocolParams
SetProtocolParams(w, ch1Off, ch2Off, trigLvl, trigSrc, trigPol, srIdx) ==
    [w EXCEPT !.sh.ch1Offset = ch1Off,
              !.sh.ch2Offset = ch2Off,
              !.sh.trigLevel = trigLvl,
              !.sh.trigSource = trigSrc,
              !.sh.trigPolarity = trigPol,
              !.sh.sampleRateIdx = srIdx]

----------------------------------------------------------------------------
(* Captured waveforms.                                                     *)
(* A channel of a frame is kept as its length and the signal the device    *)
(* sampled; the converted samples are fixed-point volts in units of 0.01 V *)
(* (gain and offsets are at their fixed defaults in this model).  The      *)
(* model's user never selects the 2 Ms/s rate (combo index 0), so the      *)
(* decimation-averaging of MainWindow.cpp:1179-1231 does not run.          *)

Signals == {"flat", "tri"}

\* sample i (0-based) of a signal: a DC level of 0.22 V, a triangle of 0.1 V amplitude
\* and 40 samples period, a slope that rises by 0.2 V over the first 200 samples, or a
\* ripple of 0.04 V that falls back every second sample
Sample(sig, i) ==
    IF sig = "tri"
    THEN LET p == i % 40
         IN  IF p <= 10 THEN p ELSE IF p <= 30 THEN 20 - p ELSE p - 40
    ELSE IF sig = "ramp" THEN (i \div 10) - 10
    ELSE IF sig = "ripple" THEN 4 * ((i + 1) % 2)
    ELSE 22

EmptyWave == [len |-> 0, sig |-> "none"]
WaveOf(buf, sig) == IF BufLen(buf) = 0 THEN EmptyWave ELSE [len |-> BufLen(buf), sig |-> sig]
WaveSet == {EmptyWave} \cup [len : {DualLen, SingleLen}, sig : Signals]
\* signals the trigger decision is examined on, and their waves
TrigSignals == Signals \cup {"ramp", "ripple"}
TrigWaveSet == {EmptyWave} \cup [len : {DualLen, SingleLen}, sig : TrigSignals]

\* the samples of a wave as a sequence (index 1 is sample 0)
Samples(wv) == [i \in 1..wv.len |-> Sample(wv.sig, i - 1)]
\* QVector::mid(n)
Mid(data, n) == [i \in 1..Max(Len(data) - n, 0) |-> data[i + n]]

RECURSIVE SumAt(_, _)
SumAt(data, idx) ==
    IF idx = {} THEN 0
    ELSE LET i == CHOOSE j \in idx : TRUE IN data[i] + SumAt(data, idx \ {i})

SetMin(S) == CHOOSE x \in S : \A y \in S : x <= y
SetMax(S) == CHOOSE x \in S : \A y \in S : x >= y
Range(data) == {data[i] : i \in 1..Len(data)}

\* rationals [n, d] with d > 0
Rat(n, d) == [n |-> n, d |-> d]
RatLeq(a, b) == a.n * b.d <= b.n * a.d
RatEq(a, b) == a.n * b.d = b.n * a.d

\* findLocalExtrema: the means of the strict local maxima and minima (0 when there are none)
MaxIdx(data) == {i \in 2..(Len(data) - 1) : data[i] > data[i - 1] /\ data[i] > data[i + 1]}
MinIdx(data) == {i \in 2..(Len(data) - 1) : data[i] < data[i - 1] /\ data[i] < data[i + 1]}
AvgAt(data, idx) == IF idx = {} THEN Rat(0, 1) ELSE Rat(SumAt(data, idx), Cardinality(idx))
\* (avgMax - avgMin) / 2.0
Amplitude(data) ==
    LET a == AvgAt(data, MaxIdx(data))
        b == AvgAt(data, MinIdx(data))
    IN  Rat(a.n * b.d - b.n * a.d, 2 * a.d * b.d)

\* 1e-9 V in units of 0.01 V is 1 / BodeEpsInv
BodeEpsInv == 10000000
\* amp <= 1e-9
AmpLeqEps(amp) == amp.n <= amp.d \div BodeEpsInv

\* 20.0 * log10(outAmp / inAmp) for inAmp > 0, kept as the class of the double it yields
Log10Db(outAmp, inAmp) ==
    IF outAmp.n = 0 THEN "-inf"
    ELSE IF outAmp.n < 0 THEN "nan"
    ELSE IF RatEq(outAmp, inAmp) THEN "0.0"
    ELSE IF RatLeq(outAmp, inAmp) THEN "<0" ELSE ">0"

\* double gain = (inAmp > 1e-9) ? 20.0 * log10(outAmp / inAmp) : 0.0;
BodeGain(inAmp, outAmp) ==
    IF ~AmpLeqEps(inAmp) THEN Log10Db(outAmp, inAmp) ELSE "0.0"

\* the upward zero crossings (0-based positions i with data[i-1] < 0 <= data[i])
ZeroIdx(data) == {i \in 1..(Len(data) - 1) : data[i] < 0 /\ data[i + 1] >= 0}
FirstZero(data) == IF ZeroIdx(data) = {} THEN 0 - 1 ELSE SetMin(ZeroIdx(data))

RECURSIVE WrapDeg(_, _)
\* while (phase > 180) phase -= 360; while (phase < -180) phase += 360;  (phase = n / d)
WrapDeg(n, d) ==
    IF n > 180 * d THEN WrapDeg(n - 360 * d, d)
    ELSE IF n < 0 - 180 * d THEN WrapDeg(n + 360 * d, d)
    ELSE Rat(n, d)

\* the zero-crossing phase in degrees: (outZeroIdx - inZeroIdx) * dt / avgPeriod * 360
\* with avgPeriod = (last - first input crossing) * dt / (crossings - 1); dt cancels
BodePhase(inWave, outWave) ==
    LET zs == ZeroIdx(inWave)
        iz == FirstZero(inWave)
        oz == FirstZero(outWave)
    IN  IF iz >= 0 /\ oz >= 0 /\ Cardinality(zs) >= 2
        THEN WrapDeg(360 * (oz - iz) * (Cardinality(zs) - 1), SetMax(zs) - SetMin(zs))
        ELSE Rat(0, 1)

\* one turn of the loop of plotBodePlot: the magnitude, the phase and the invalid mark
\* of one sweep point
BodePoint(inFull, outFull) ==
    IF Min(inFull.len, outFull.len) <= BodeSkip
    THEN [mag |-> "0.0", phase |-> Rat(0, 1), invalid |-> TRUE]
    ELSE LET inWave == Mid(Samples(inFull), BodeSkip)
             outWave == Mid(Samples(outFull), BodeSkip)
             inAmp == Amplitude(inWave)
             outAmp == Amplitude(outWave)
         IN  [mag |-> BodeGain(inAmp, outAmp),
              phase |-> BodePhase(inWave, outWave),
              invalid |-> (AmpLeqEps(inAmp) \/ AmpLeqEps(outAmp))]

\* the analysis of every pair of waves a sweep can record
BodeTable == [p \in WaveSet \X WaveSet |-> BodePoint(p[1], p[2])]

----------------------------------------------------------------------------
(* The device and the circuit under test.                                  *)
(* CH1 probes the stimulus, CH2 the response of the circuit.  The circuit  *)
(* is chosen once: a low pass (the response follows the stimulus up to     *)
(* 1 kHz and is a flat line above) or a dead stimulus (both channels are   *)
(* flat lines).  The sweep's frequencies are kept on a logarithmic scale,  *)
(* in thousandths of a decade above 1 Hz (1000 * log10(f / Hz)); the      *)
(* frequency spin of the generator holds whole Hz.                         *)

Circuits == {"lowpass", "dead"}
Ch1Signal(w) == IF w.port.circuit = "dead" THEN "flat" ELSE "tri"
Ch2Signal(w) ==
    IF w.port.circuit = "dead" \/ w.mw.ddsFreq > 1000 THEN "flat" ELSE "tri"

----------------------------------------------------------------------------
(* MainWindow: run, stop, abort *)

\* ch1Gain and ch2Gain as the constructor leaves them (1), in halves
ChGain2 == 2
\* the gain the trigger level is scaled by, in halves: the gain of the channel whose
\* trigger radio is checked, else 1.0
TrigGain2(m) == IF m.trigRadio \in {1, 2} THEN ChGain2 ELSE 2

\* int trigForUp = 2048 + static_cast<int>(((trigLevel - 2048) / gain) / (4.0 / 3.0)), clamped to
\* 0..4095
TrigForUp(trigLevel, gain2) ==
    LET d == trigLevel - 2048
        q == IF d >= 0 THEN (3 * d) \div (2 * gain2) ELSE 0 - ((3 * (0 - d)) \div (2 * gain2))
    IN  Max(0, Min(4095, 2048 + q))

\* trigLine = round(((trigLevel * 10.0 / 2048.0 - 10.0) / gain) * 100.0) / 100.0, in 0.01 V
TrigLine(trigLevel, gain2) ==
    LET d == trigLevel - 2048
    IN  IF d >= 0 THEN RoundDiv(125 * d, 128 * gain2)
        ELSE 0 - RoundDiv(125 * (0 - d), 128 * gain2)

\* *std::min_element and *std::max_element of a wave
WaveMin == [wv \in TrigWaveSet |-> IF wv.len = 0 THEN 0 ELSE SetMin(Range(Samples(wv)))]
WaveMax == [wv \in TrigWaveSet |-> IF wv.len = 0 THEN 0 ELSE SetMax(Range(Samples(wv)))]

\* the trigger level lies outside the wave the checked trigger radio selects (no wave is
\* selected with the auto or the external radio checked, or when the wave is empty)
TrigOutsideRange(m, ch1Data, ch2Data) ==
    LET trigLine == TrigLine(m.trigLevel, TrigGain2(m))
        outside(wv) == trigLine > WaveMax[wv] \/ trigLine < WaveMin[wv]
    IN  IF m.trigRadio = 1 /\ ch1Data.len > 0 THEN outside(ch1Data)
        ELSE IF m.trigRadio = 2 /\ ch2Data.len > 0 THEN outside(ch2Data)
        ELSE FALSE

\* MainWindow::setTriggerMode (the L->H polarity radio is checked)
SetTriggerMode(w) ==
    LET t == TrigForUp(w.mw.trigLevel, TrigGain2(w.mw))
        msb8 == t \div 16
        lsb4 == (t - msb8 * 16) * 16
        w1 == SendCommand(w, <<"T", w.mw.trigRadio, 0>>)
        w2 == SendCommand(w1, <<"P", 0, 0>>)
        w3 == SendCommand(w2, <<"L", Byte(msb8), Byte(lsb4)>>)
    IN  IF TrigOutsideRange(w3.mw, w3.mw.ch1Buffer, w3.mw.ch2Buffer)
        THEN [w3 EXCEPT !.mw.trigRadio = 0]     \* autoTrigRadio->setChecked(true)
        ELSE w3

\* the SerialHandler mode and dual flag MainWindow derives from acquisitionMode
SerialMode(m) == IF m.acquisitionMode = 0 THEN 1 ELSE m.acquisitionMode + 1
SerialDualChannel(m) == m.acquisitionMode = 0

\* MainWindow::onRunClicked
OnRunClicked(w) ==
    IF ~w.mw.isConnected THEN w
    ELSE LET len == IF w.mw.acquisitionMode = 0 THEN DualLen ELSE SingleLen
             w1 == [w EXCEPT !.mw.isRunning = TRUE, !.mw.dataLength = len]
             w2 == SetProtocolParams(w1, w1.mw.ch1Offset, w1.mw.ch2Offset, w1.mw.trigLevel,
                                     w1.mw.trigSource, w1.mw.trigPolarity, w1.mw.sampleRateCombo)
             w3 == SetTriggerMode(w2)
         IN  StartOscilloscopeAcquisition(w3, SerialMode(w3.mw), len, SerialDualChannel(w3.mw))

RECURSIVE BlinkTestLED(_)
\* MainWindow::onStopClicked
OnStopClicked(w) == BlinkTestLED([w EXCEPT !.mw.isRunning = FALSE])

\* MainWindow::blinkTestLED
BlinkTestLED(w) ==
    IF w.mw.isRunning
    THEN OnRunClicked(SendCommand(OnStopClicked(w), <<"t", 0, 0>>))
    ELSE SendCommand(w, <<"t", 0, 0>>)

\* MainWindow::onAbortClicked
OnAbortClicked(w) ==
    LET w1 == SendCommand(w, <<"A">>)
        w2 == OnStopClicked(w1)
        w3 == BlinkTestLED(w2)
    IN  [w3 EXCEPT !.obs.aborted = TRUE]

\* MainWindow::onSampleRateChanged
OnSampleRateChanged(w, index) ==
    LET sampleRateSelection == index + 1
        w1 == SetProtocolParams(w, w.mw.ch1Offset, w.mw.ch2Offset, w.mw.trigLevel,
                                w.mw.trigSource, w.mw.trigPolarity, sampleRateSelection)
    IN  IF w1.mw.isRunning /\ w1.mw.isConnected
        THEN SendCommand(w1, <<"S", Byte(sampleRateSelection), 0>>)
        ELSE w1

\* MainWindow::onModeChanged for the radios Both (0), CH1 (1), CH2 (2): the mode frame
\* goes out at once, the start is left to a 50 ms single-shot
OnModeChanged(w, index) ==
    LET w1 == [w EXCEPT !.mw.acquisitionMode = index,
                        !.mw.dataLength = IF index = 0 THEN DualLen ELSE SingleLen]
    IN  IF w1.mw.isRunning /\ w1.mw.isConnected
        THEN [SendCommand(w1, <<"F", Byte(index)>>) EXCEPT
                 !.mw.modeTimers = Append(@, [serialMode |-> SerialMode(w1.mw),
                                              dualChannel |-> SerialDualChannel(w1.mw)])]
        ELSE w1

ModeChangeRestartAlways(w, t) ==
    StartOscilloscopeAcquisition(w, t.serialMode, w.mw.dataLength, t.dualChannel)

\* the single-shot lambda of onModeChanged
ModeChangeRestart(w, t) ==
    IF w.mw.isRunning /\ w.mw.isConnected
    THEN StartOscilloscopeAcquisition(w, t.serialMode, w.mw.dataLength, t.dualChannel)
    ELSE w

\* MainWindow::onTrigSourceChanged(idx), the user having checked the radio idx
OnTrigSourceChanged(w, idx) ==
    LET w1 == [w EXCEPT !.mw.trigSource = idx]
    IN  IF w1.mw.isRunning
        THEN [OnStopClicked(w1) EXCEPT !.mw.trigTimers = @ + 1]
        ELSE SetTriggerMode(w1)

\* the 100 ms single-shot lambda of onTrigSourceChanged
TrigSourceRestart(w) == OnRunClicked(SetTriggerMode(w))

----------------------------------------------------------------------------
(* MainWindow: the Bode sweep *)

\* sweepSamplesSpin->setRange(10, 1000): the model sweeps with the smallest count
MinSweepSamples == 10
\* sweepStartFreq = 100 Hz and sweepEndFreq = 10 kHz, on the logarithmic scale
LogStartFreq == 2000
LogEndFreq == 4000

\* the table of findSampleRateIndex (2 MS/s ... 100 S/s) on the logarithmic scale
LogSampleRates ==
    <<6301, 6000, 5699, 5301, 5000, 4699, 4301, 4000, 3699, 3301, 3000, 2699, 2301, 2000>>

\* findSampleRateIndex: the slowest rate above 9 * freq (log10(9) = 0.954), else the fastest
FindSampleRateIndex(freq) ==
    LET ok == {i \in 0..13 : LogSampleRates[i + 1] > 954 + freq}
    IN  IF ok = {} THEN 0 ELSE SetMax(ok)

\* MainWindow::createSweepFrequencyArray: pow(10, logStart + i * step) for i = 0 .. samples-1
CreateSweepFrequencyArray(w) ==
    LET n == w.mw.sweepSamples
    IN  [w EXCEPT !.mw.sweepFrequencies =
            [i \in 1..n |-> LogStartFreq + ((i - 1) * (LogEndFreq - LogStartFreq)) \div (n - 1)]]

RECURSIVE InvalidFreqs(_, _, _)
\* the frequencies plotBodePlot marks as invalid points, in order
InvalidFreqs(freqs, ins, outs) ==
    IF freqs = <<>> THEN <<>>
    ELSE LET rest == InvalidFreqs(Tail(freqs), Tail(ins), Tail(outs))
         IN  IF BodeTable[<<Head(ins), Head(outs)>>].invalid
             THEN <<Head(freqs)>> \o rest ELSE rest

\* a faulty variant of plotBodePlot: a point whose frames are too short to analyse is
\* marked invalid but gets no magnitude and no phase
PlotBodePlotDropsShort(w) ==
    LET m == w.mw
        n == Len(m.sweepFrequencies)
        pt(i) == BodeTable[<<m.sweepInputWaves[i], m.sweepOutputWaves[i]>>]
        long == SelectSeq([i \in 1..n |-> i],
                          LAMBDA i : Min(m.sweepInputWaves[i].len, m.sweepOutputWaves[i].len) > BodeSkip)
    IN  IF n = 0 \/ Len(m.sweepInputWaves) = 0 \/ Len(m.sweepOutputWaves) = 0 THEN w
        ELSE IF n # Len(m.sweepInputWaves) \/ n # Len(m.sweepOutputWaves) THEN w
        ELSE [w EXCEPT
                !.mw.sweepMagnitudes = [j \in 1..Len(long) |-> pt(long[j]).mag],
                !.mw.sweepPhases = [j \in 1..Len(long) |-> pt(long[j]).phase],
                !.mw.invalidFreqs =
                    InvalidFreqs(m.sweepFrequencies, m.sweepInputWaves, m.sweepOutputWaves)]

\* MainWindow::plotBodePlot (the smoothed copies it draws are local to the plot)
PlotBodePlot(w) ==
    LET m == w.mw
        n == Len(m.sweepFrequencies)
    IN  IF n = 0 \/ Len(m.sweepInputWaves) = 0 \/ Len(m.sweepOutputWaves) = 0 THEN w
        ELSE IF n # Len(m.sweepInputWaves) \/ n # Len(m.sweepOutputWaves) THEN w
        ELSE [w EXCEPT
                !.mw.sweepMagnitudes =
                    [i \in 1..n |-> BodeTable[<<m.sweepInputWaves[i], m.sweepOutputWaves[i]>>].mag],
                !.mw.sweepPhases =
                    [i \in 1..n |-> BodeTable[<<m.sweepInputWaves[i], m.sweepOutputWaves[i]>>].phase],
                !.mw.invalidFreqs =
                    InvalidFreqs(m.sweepFrequencies, m.sweepInputWaves, m.sweepOutputWaves)]

\* MainWindow::stopSweep (sweepTimer is never started; the DDS button never reads "Stop")
StopSweep(w) ==
    LET w1 == [w EXCEPT !.mw.sweepRunning = FALSE,
                        \* history: the sweep was cancelled before its last point
                        !.obs.cancelled = @ \/ (w.mw.sweepRunning /\
                                                w.mw.sweepIndex < Len(w.mw.sweepFrequencies))]
    IN  IF Len(w1.mw.sweepFrequencies) > 0 /\ Len(w1.mw.sweepAmplitudes) > 0
        THEN PlotBodePlot(w1)
        ELSE w1

\* MainWindow::onStopSweepClicked
OnStopSweepClicked(w) == StopSweep(w)

----------------------------------------------------------------------------
(* The DDS planner.  Frequencies are integers in Hz here, as in the code.  *)
(* An entry of DDS_Table is kept as the index of the master-table sample   *)
(* it was copied from (the sine master table has 256 non-zero samples).    *)

TimerClock == 32000000      \* timer_clock
Divider == 32               \* divider
MaxTimerPeriod == 65535
MaxSamples == 512
WaveformSize == 256         \* DDS_Waveform.size()
StretchBelow == 1000        \* useCycleStretch = (Frequency < 1000)
MinDdsFreq == 1             \* ddsFreqSpin->setRange(1, 50000)
MaxDdsFreq == 50000

RECURSIVE ShiftCount(_)
\* the number of right shifts that bring n >= 0 to zero
ShiftCount(n) == IF n = 0 THEN 0 ELSE 1 + ShiftCount(n \div 2)

\* MainWindow::nextPowerOf2, n >= 0
NextPowerOf2(n) == IF n = 0 THEN 1 ELSE 2 ^ ShiftCount(n)

\* the argument get_phase_step hands to nextPowerOf2: floor(frequency * 2^16 / fclock),
\* with the fraction reduced by 64 to stay inside 32 bits
PhaseStepInt(frequency, fclock) == (frequency * 1024) \div (fclock \div 64)

\* MainWindow::get_phase_step
Get_phase_step(frequency, fclock) ==
    LET step == NextPowerOf2(PhaseStepInt(frequency, fclock))
    IN  IF step < 1 THEN 1 ELSE step

\* GetCount_GetIndex: dds_index after k additions of phase_step to the accumulator
DdsIndex(phase_step, k) == Min(255, (k * phase_step) \div 256)
\* unique_indices once dds_count samples are in the table
UniqueIndices(phase_step, dds_count) ==
    Cardinality({DdsIndex(phase_step, k) : k \in 0..(dds_count - 1)})

\* MainWindow::GetCount_GetIndex(0, phase_step, 0, 0): the while loop stops at the first
\* dds_count that is 512 or has seen all 256 indices; the padding loop repeats the last
\* index
GetCount_GetIndex(phase_step) ==
    LET stops == {c \in 1..MaxSamples : c = MaxSamples \/ UniqueIndices(phase_step, c) = 256}
        dds_count == CHOOSE c \in stops : \A d \in stops : c <= d
        last_index == DdsIndex(phase_step, dds_count - 1)
    IN  [table |-> [i \in 1..MaxSamples |->
                       IF i <= dds_count THEN DdsIndex(phase_step, i - 1) ELSE last_index],
         intermediate_dds_count |-> dds_count]

\* the phase steps get_phase_step can return for the frequencies of the spin
PhaseSteps == {2 ^ k : k \in 0..12}
\* GetCount_GetIndex for each of them
DdsTables == [step \in PhaseSteps |-> GetCount_GetIndex(step)]

\* the low-frequency branch of setFrequency: one stretched cycle of 512 samples
StretchTable ==
    [i \in 1..MaxSamples |-> RoundDiv((i - 1) * (WaveformSize - 1), MaxSamples - 1)]

\* a faulty variant of setFrequency: the corrected divider is truncated, not rounded
SetFrequencyTruncates(Frequency) ==
    LET fclock == TimerClock \div Divider
    IN  IF Frequency < StretchBelow
        THEN LET period == TimerClock \div (Frequency * 512)
             IN  [Frequency |-> Frequency,
                  timer_period |-> Min(period, MaxTimerPeriod),
                  no_of_samples |-> 512,
                  phase_step |-> 0,
                  DDS_Table |-> StretchTable,
                  clipped |-> period > MaxTimerPeriod]
        ELSE LET Ph_step_Powof2 == Get_phase_step(Frequency, fclock)
                 samples == 65536 \div Ph_step_Powof2
                 divider_corrected ==
                     ((Divider \div 32) * Ph_step_Powof2 * (fclock \div 64)) \div (32 * Frequency)
             IN  [Frequency |-> Frequency,
                  timer_period |-> Min(divider_corrected, MaxTimerPeriod),
                  no_of_samples |-> Min(samples, MaxSamples),
                  phase_step |-> Ph_step_Powof2,
                  DDS_Table |-> DdsTables[Ph_step_Powof2].table,
                  clipped |-> divider_corrected > MaxTimerPeriod \/ samples > MaxSamples]

\* MainWindow::setFrequency for the spin value Frequency: the planner's fields
SetFrequency(Frequency) ==
    LET fclock == TimerClock \div Divider
    IN  IF Frequency < StretchBelow
        THEN LET N == 512
                 period == TimerClock \div (Frequency * N)
             IN  [Frequency |-> Frequency,
                  timer_period |-> Min(period, MaxTimerPeriod),
                  no_of_samples |-> Min(N, MaxSamples),
                  phase_step |-> 0,           \* get_phase_step is not called
                  DDS_Table |-> StretchTable,
                  clipped |-> period > MaxTimerPeriod \/ N > MaxSamples]
        ELSE LET Ph_step_Powof2 == Get_phase_step(Frequency, fclock)
                 \* fclock / fout with fout = Ph_step_Powof2 * fclock / 2^16
                 samples == 65536 \div Ph_step_Powof2
                 \* round(divider * fout / Frequency), the fraction reduced by 2048
                 divider_corrected ==
                     RoundDiv((Divider \div 32) * Ph_step_Powof2 * (fclock \div 64), 32 * Frequency)
             IN  [Frequency |-> Frequency,
                  timer_period |-> Min(divider_corrected, MaxTimerPeriod),
                  no_of_samples |-> Min(samples, MaxSamples),
                  phase_step |-> Ph_step_Powof2,
                  DDS_Table |-> DdsTables[Ph_step_Powof2].table,
                  clipped |-> divider_corrected > MaxTimerPeriod \/ samples > MaxSamples]

\* the planner's fields before the first runDDS (every runDDS writes them before it
\* reads them)
NoDds == [Frequency |-> 1000, timer_period |-> 0, no_of_samples |-> 0, phase_step |-> 0,
          DDS_Table |-> <<>>, clipped |-> FALSE]

\* a faulty variant of the frames of runDDS: the run frame is written before the
\* waveform upload
RunDDSRunFirst(w, dds) ==
    LET w0 == [w EXCEPT !.mw.dds = dds]
        w1 == SendCommand(w0, <<"p", Byte(dds.timer_period \div 256), dds.timer_period % 256>>)
        w2 == SendCommand(w1, <<"N", Byte(dds.no_of_samples \div 256), dds.no_of_samples % 256>>)
        w3 == SendCommand(w2, <<"f", 0, 0>>)
    IN  SendCommand(w3, <<"r", 0, 0>> \o SubSeq(dds.DDS_Table, 1, dds.no_of_samples))

\* MainWindow::runDDS after its call of setFrequency has left the plan dds in the
\* members: the period, sample count, waveform upload and run frames
RunDDSFrames(w, dds) ==
    LET w0 == [w EXCEPT !.mw.dds = dds]
        w1 == SendCommand(w0, <<"p", Byte(dds.timer_period \div 256), dds.timer_period % 256>>)
        w2 == SendCommand(w1, <<"N", Byte(dds.no_of_samples \div 256), dds.no_of_samples % 256>>)
        safe_samples == Min(dds.no_of_samples, Len(dds.DDS_Table))
    IN  IF safe_samples <= 0 \/ safe_samples > 512 THEN w2
        ELSE LET w3 == SendCommand(w2, <<"r", 0, 0>> \o SubSeq(dds.DDS_Table, 1, safe_samples))
             IN  SendCommand(w3, <<"f", 0, 0>>)

\* MainWindow::runDDS with the frequency spin at Frequency Hz and the sine table selected
RunDDSAt(w, Frequency) == RunDDSFrames(w, SetFrequency(Frequency))

\* static_cast<int>(ddsFreqSpin->value()) after setValue(f) for the ten frequencies
\* f = 100 * 100^(i/9) Hz of the sweep, which the model keeps as 1000 * log10(f / Hz)
SpinHz(logFreq) ==
    CASE logFreq = 2000 -> 100
      [] logFreq = 2222 -> 166
      [] logFreq = 2444 -> 278
      [] logFreq = 2666 -> 464
      [] logFreq = 2888 -> 774
      [] logFreq = 3111 -> 1291
      [] logFreq = 3333 -> 2154
      [] logFreq = 3555 -> 3593
      [] logFreq = 3777 -> 5994
      [] logFreq = 4000 -> 10000

\* MainWindow::runDDS
RunDDS(w) == RunDDSAt(w, w.mw.ddsFreq)

\* MainWindow::onDDSStartStopClicked
OnDDSStartStopClicked(w) == IF w.mw.isConnected THEN RunDDS(w) ELSE w

\* MainWindow::setDDSForSweep
SetDDSForSweep(w) ==
    IF w.mw.sweepIndex >= Len(w.mw.sweepFrequencies) THEN StopSweep(w)
    ELSE LET currentFreq == w.mw.sweepFrequencies[w.mw.sweepIndex + 1]
             srIdx == FindSampleRateIndex(currentFreq)
             w1 == [w EXCEPT !.mw.ddsFreq = SpinHz(currentFreq)]
             \* setCurrentIndex signals currentIndexChanged when the index changes
             w2 == IF w1.mw.sampleRateCombo # srIdx
                   THEN OnSampleRateChanged([w1 EXCEPT !.mw.sampleRateCombo = srIdx], srIdx)
                   ELSE w1
             w3 == OnSampleRateChanged(w2, srIdx)
             w4 == OnDDSStartStopClicked(w3)
         IN  IF w4.mw.isConnected
             THEN [w4 EXCEPT !.mw.dataLength = 200, !.mw.settleTimers = @ + 1]
             ELSE w4

\* MainWindow::onSweepStartStopClicked
OnSweepStartStopClicked(w) ==
    IF ~w.mw.sweepRunning
    THEN IF ~w.mw.isConnected THEN w
         ELSE LET w1 == CreateSweepFrequencyArray(w)
              IN  IF Len(w1.mw.sweepFrequencies) = 0 THEN w1
                  ELSE SetDDSForSweep([w1 EXCEPT !.mw.sweepRunning = TRUE,
                                                 !.mw.sweepIndex = 0,
                                                 !.mw.sweepAmplitudes = <<>>,
                                                 !.mw.sweepPhases = <<>>,
                                                 !.mw.sweepMagnitudes = <<>>,
                                                 !.mw.sweepInputWaves = <<>>,
                                                 !.mw.sweepOutputWaves = <<>>,
                                                 !.obs.cancelled = FALSE])
    ELSE StopSweep(w)

----------------------------------------------------------------------------
(* MainWindow: the frame callback *)

\* max - min of a wave, in 0.01 V
PeakToPeak == [wv \in TrigWaveSet |->
                  IF wv.len = 0 THEN 0
                  ELSE SetMax(Range(Samples(wv))) - SetMin(Range(Samples(wv)))]

\* a faulty variant of checkTriggerCondition: with the auto radio checked the channel
\* that has samples is looked at
CheckTriggerConditionAnyChannel(w, ch1Data, ch2Data) ==
    LET triggerData == IF w.mw.trigRadio = 2 THEN ch2Data
                       ELSE IF w.mw.trigRadio = 1 \/ ch1Data.len > 0 THEN ch1Data
                       ELSE ch2Data
    IN  IF triggerData.len = 0 THEN FALSE ELSE PeakToPeak[triggerData] > 10

\* MainWindow::checkTriggerCondition: the channel of the checked trigger radio is looked at
\* (CH1 with the auto or external radio), and the frame triggers when its range exceeds
\* 0.1 V
CheckTriggerCondition(w, ch1Data, ch2Data) ==
    LET triggerData == IF w.mw.trigRadio = 2 THEN ch2Data ELSE ch1Data
    IN  IF triggerData.len = 0 THEN FALSE ELSE PeakToPeak[triggerData] > 10

\* the value sweepAmplitudes records: the RMS of the output if it is positive, else of the
\* input (an RMS is kept as the wave it is taken of; that of an empty wave is 0.0)
SweepAmplitude(ch1Volts, ch2Volts) == IF ch2Volts.len > 0 THEN ch2Volts ELSE ch1Volts

\* the end of the callback: the next acquisition is always started while running
NextAcquisition(w, dataLength) ==
    IF w.mw.isRunning /\ w.mw.isConnected
    THEN StartOscilloscopeAcquisition(ResetAcquisitionState(w), SerialMode(w.mw),
                                      dataLength, SerialDualChannel(w.mw))
    ELSE w

\* the triggered branch of the callback: the frame is kept for the plot and, while
\* running, the next acquisition is started
TriggeredFrame(w, ch1Volts, ch2Volts, dataLength) ==
    IF w.mw.isRunning /\ w.mw.isConnected
    THEN StartOscilloscopeAcquisition([w EXCEPT !.mw.ch1Buffer = ch1Volts,
                                                !.mw.ch2Buffer = ch2Volts],
                                      SerialMode(w.mw), dataLength, SerialDualChannel(w.mw))
    ELSE [w EXCEPT !.mw.ch1Buffer = ch1Volts, !.mw.ch2Buffer = ch2Volts]

\* the trigger logic of the callback. With the trigger level outside the frame the auto
\* radio is checked and the callback returns (history: the controller switched to auto
\* trigger); else the frame is shown when it triggers and the next acquisition starts
\* (history: what checkTriggerCondition returned)
TriggerLogic(w, ch1Volts, ch2Volts, dataLength) ==
    IF TrigOutsideRange(w.mw, ch1Volts, ch2Volts)
    THEN [w EXCEPT !.mw.trigRadio = 0, !.obs.autoSwitched = TRUE]
    ELSE IF CheckTriggerCondition(w, ch1Volts, ch2Volts)
    THEN NextAcquisition(TriggeredFrame([w EXCEPT !.obs.judged = "triggered"],
                                        ch1Volts, ch2Volts, dataLength), dataLength)
    ELSE NextAcquisition([w EXCEPT !.obs.judged = "not triggered"], dataLength)

\* the sweep step of the callback after the point was recorded: the sweep ends after its
\* last point, else the acquisition stops and the next step is scheduled
SweepStep(w, ch1Volts, ch2Volts, dataLength) ==
    IF w.mw.sweepIndex >= Len(w.mw.sweepFrequencies) THEN StopSweep(w)
    ELSE IF w.mw.isRunning
    THEN TriggerLogic([OnStopClicked(w) EXCEPT !.mw.stepTimers = @ + 1],
                      ch1Volts, ch2Volts, dataLength)
    ELSE TriggerLogic([w EXCEPT !.mw.stepTimers = @ + 1], ch1Volts, ch2Volts, dataLength)

\* the callback on the converted waves
OnFrameVolts(w, ch1Volts, ch2Volts, dataLength) ==
    IF w.mw.sweepRunning /\ w.mw.sweepIndex < Len(w.mw.sweepFrequencies)
    THEN SweepStep([w EXCEPT !.mw.sweepAmplitudes = Append(@, SweepAmplitude(ch1Volts, ch2Volts)),
                             !.mw.sweepInputWaves = Append(@, ch1Volts),
                             !.mw.sweepOutputWaves = Append(@, ch2Volts),
                             !.mw.sweepIndex = @ + 1],
                   ch1Volts, ch2Volts, dataLength)
    ELSE TriggerLogic(w, ch1Volts, ch2Volts, dataLength)

\* MainWindow::onOscilloscopeRawDataReady(ch1, ch2, dataLength, dualChannel)
OnOscilloscopeRawDataReady(w, ch1, ch2, dataLength, dualChannel) ==
    LET m == w.mw
        incomplete ==
            IF dualChannel THEN BufLen(ch1) = 0 \/ BufLen(ch2) = 0
            ELSE \/ (m.acquisitionMode = 1 /\ BufLen(ch1) = 0)
                 \/ (m.acquisitionMode = 2 /\ BufLen(ch2) = 0)
    IN  IF incomplete THEN w
        ELSE OnFrameVolts(w, WaveOf(ch1, Ch1Signal(w)), WaveOf(ch2, Ch2Signal(w)), dataLength)

----------------------------------------------------------------------------
(* SerialHandler: incoming bytes and the state timeout *)

NoFrame == [kind |-> "none"]

\* emit oscilloscopeRawDataReady(ch1, ch2, dataLength, dualChannel): the slot runs inside
\* the emission (onRunClicked connected it before the first start)
EmitRawDataReady(w, ch1, ch2, dataLength, dualChannel) ==
    LET w1 == [w EXCEPT !.obs.frame = [kind |-> "frame", ch1 |-> ch1, ch2 |-> ch2,
                                       len |-> dataLength, dual |-> dualChannel,
                                       req |-> w.obs.req],
                        !.obs.emits = @ + 1,
                        !.obs.inCallback = TRUE]
        w2 == OnOscilloscopeRawDataReady(w1, ch1, ch2, dataLength, dualChannel)
    IN  [w2 EXCEPT !.obs.inCallback = FALSE]

\* a faulty variant of ReadRequest: the CH2-only read waits for 200 bytes instead of 400
ReadRequestShort(s) ==
    IF s.acqDualChannel THEN [cmd |-> <<"D", 1, 0>>, need |-> 200, next |-> "WaitingForCh1"]
    ELSE IF s.acqMode = 2 THEN [cmd |-> <<"D", 3, 0>>, need |-> 400, next |-> "WaitingForCh1"]
    ELSE IF s.acqMode = 3 THEN [cmd |-> <<"D", 4, 0>>, need |-> 200, next |-> "WaitingForCh2"]
    ELSE [cmd |-> <<>>, need |-> s.bytesNeeded, next |-> s.acqState]

\* the read command written after the acknowledgment, with the bytes and the state it leads to
ReadRequest(s) ==
    IF s.acqDualChannel THEN [cmd |-> <<"D", 1, 0>>, need |-> 200, next |-> "WaitingForCh1"]
    ELSE IF s.acqMode = 2 THEN [cmd |-> <<"D", 3, 0>>, need |-> 400, next |-> "WaitingForCh1"]
    ELSE IF s.acqMode = 3 THEN [cmd |-> <<"D", 4, 0>>, need |-> 400, next |-> "WaitingForCh2"]
    ELSE [cmd |-> <<>>, need |-> s.bytesNeeded, next |-> s.acqState]

\* a faulty variant of the acknowledgment branch: only the byte 0x06 is taken as the
\* acknowledgment, any other byte is dropped
OnAcknowledgmentChecked(w, ack) ==
    IF ack # 6 THEN [w EXCEPT !.port.rx = EmptyBuf]
    ELSE Write([w EXCEPT !.port.rx = EmptyBuf,
                         !.sh.ch1Raw = EmptyBuf,
                         !.sh.ch2Raw = EmptyBuf,
                         !.sh.bytesNeeded = ReadRequest(w.sh).need,
                         !.sh.acqState = ReadRequest(w.sh).next,
                         !.sh.timeoutActive = TRUE,
                         !.obs.rearm = TRUE],
               ReadRequest(w.sh).cmd)

\* the WaitingForDone branch of handleReadyRead once a byte is there: ack is the byte
\* read (its value is only logged); the channel buffers and whatever else is buffered
\* are cleared, the read command is written and the state timeout restarted
OnAcknowledgment(w, ack) ==
    Write([w EXCEPT !.port.rx = EmptyBuf,
                    !.sh.ch1Raw = EmptyBuf,
                    !.sh.ch2Raw = EmptyBuf,
                    !.sh.bytesNeeded = ReadRequest(w.sh).need,
                    !.sh.acqState = ReadRequest(w.sh).next,
                    !.sh.timeoutActive = TRUE,
                    !.obs.rearm = TRUE],
          ReadRequest(w.sh).cmd)

\* SerialHandler::handleReadyRead (every branch of its loop returns); obs.byte is the
\* value of the first byte the notification finds in the port
\* a faulty variant of the channel read: the bytes beyond the expected count are lost
ReadChannelAll(w) == [w EXCEPT !.port.rx = EmptyBuf]

\* serialPort->read(bytesNeeded) in WaitingForCh1 and WaitingForCh2: what stays in the port
ReadChannel(w) == [w EXCEPT !.port.rx = BufDrop(@, w.sh.bytesNeeded)]

DiscardIdleNothing(w) == w

\* serial->readAll() of the Idle branch: everything the port holds is dropped
DiscardIdle(w) == [w EXCEPT !.port.rx = EmptyBuf]

HandleReadyRead(w) ==
    LET s == w.sh
        avail == BufLen(w.port.rx)
        short == avail < s.bytesNeeded \/ s.bytesNeeded <= 0
        data == BufTake(w.port.rx, s.bytesNeeded)
        wRead == ReadChannel(w)
    IN  IF avail = 0 THEN w
        ELSE IF s.acqState = "Idle" THEN DiscardIdle(w)
        ELSE IF s.acqState = "WaitingForDone"
        THEN IF short THEN w ELSE OnAcknowledgment(w, w.obs.byte)
        ELSE IF s.acqState = "WaitingForCh1"
        THEN IF short THEN w
             ELSE LET w1 == [wRead EXCEPT !.sh.ch1Raw = data]
                  IN  IF s.acqDualChannel
                      THEN Write([w1 EXCEPT !.sh.bytesNeeded = 200,
                                            !.sh.acqState = "WaitingForCh2",
                                            !.sh.timeoutActive = TRUE,
                                            !.obs.rearm = TRUE],
                                 <<"D", 2, 0>>)
                      ELSE IF s.acqMode = 2
                      THEN ResetAcquisitionState(
                               EmitRawDataReady([w1 EXCEPT !.sh.acqState = "Complete",
                                                           !.sh.timeoutActive = FALSE],
                                                data, EmptyBuf, s.acqDataLength, FALSE))
                      ELSE w1
        ELSE IF s.acqState = "WaitingForCh2"
        THEN IF short THEN w
             ELSE LET w1 == [wRead EXCEPT !.sh.ch2Raw = data,
                                          !.sh.acqState = "Complete",
                                          !.sh.timeoutActive = FALSE]
                  IN  IF s.acqDualChannel
                      THEN ResetAcquisitionState(
                               EmitRawDataReady(w1, s.ch1Raw, data, s.acqDataLength, TRUE))
                      ELSE IF s.acqMode = 3
                      THEN ResetAcquisitionState(
                               EmitRawDataReady(w1, EmptyBuf, data, s.acqDataLength, FALSE))
                      ELSE ResetAcquisitionState(w1)
        ELSE [w EXCEPT !.port.rx = EmptyBuf]

\* a faulty variant of the timeout lambda: the bytes received so far stay in the port
OnStateTimeoutKeepsBytes(w) ==
    ResetAcquisitionState([w EXCEPT !.obs.err = StateNo(w.sh.acqState), !.obs.timedOut = TRUE])

\* the lambda connected to timeoutTimer
OnStateTimeout(w) ==
    LET w1 == IF w.mw.isConnected THEN [w EXCEPT !.port.rx = EmptyBuf] ELSE w
        w2 == [w1 EXCEPT !.obs.err = StateNo(w.sh.acqState), !.obs.timedOut = TRUE]
    IN  ResetAcquisitionState(w2)

\* SerialHandler::handleError for an error other than NoError: errorOccurred is emitted
\* with the port's error string (no slot of the application is connected to it) and
\* nothing else is done
HandleError(w) == w

----------------------------------------------------------------------------
(* The state machine *)

World == [sh |-> sh, mw |-> mw, port |-> port, obs |-> obs]

\* the SerialHandler as constructed
SerialHandler0 ==
    [acqState |-> "Idle", acqMode |-> 1, acqDataLength |-> 200, acqDualChannel |-> TRUE,
     ch1Raw |-> EmptyBuf, ch2Raw |-> EmptyBuf, bytesNeeded |-> 0,
     ch1Offset |-> 0, ch2Offset |-> 0, trigLevel |-> 0, trigSource |-> 0,
     trigPolarity |-> 0, sampleRateIdx |-> DefaultRateIdx,
     setupStep |-> 0, setupActive |-> FALSE, timeoutActive |-> FALSE,
     acquisitionInProgress |-> FALSE]

\* the MainWindow as constructed and connected
MainWindow0 ==
    [isConnected |-> TRUE, isRunning |-> FALSE, acquisitionMode |-> 0,
     dataLength |-> 400, ch1Offset |-> 0, ch2Offset |-> 0,
     trigLevel |-> DefaultTrigLevel, trigSource |-> 0, trigPolarity |-> 0,
     sampleRateCombo |-> DefaultRateIdx, ddsFreq |-> 1000,
     sweepRunning |-> FALSE, sweepIndex |-> 0, sweepSamples |-> MinSweepSamples,
     sweepFrequencies |-> <<>>, sweepAmplitudes |-> <<>>,
     sweepInputWaves |-> <<>>, sweepOutputWaves |-> <<>>,
     sweepMagnitudes |-> <<>>, sweepPhases |-> <<>>, invalidFreqs |-> <<>>,
     modeTimers |-> <<>>, stepTimers |-> 0, settleTimers |-> 0,
     trigRadio |-> 0, trigTimers |-> 0,
     ch1Buffer |-> EmptyWave, ch2Buffer |-> EmptyWave,
     \* the planner's fields are written by every runDDS before they are read
     dds |-> NoDds]

\* the history variables before any handler ran
Obs0 ==
    [ev |-> "Init", clicks |-> 0, start |-> "none",
     req |-> [mode |-> 1, len |-> 200, dual |-> TRUE, nested |-> FALSE],
     snap |-> [trigSource |-> 0, trigPolarity |-> 0, trigLevel |-> 0,
               sampleRateIdx |-> DefaultRateIdx],
     setupLog |-> <<>>, emits |-> 0, frame |-> NoFrame, err |-> 0 - 1,
     delivered |-> 0, aborted |-> FALSE, cancelled |-> FALSE, timedOut |-> FALSE,
     inCallback |-> FALSE, autoSwitched |-> FALSE, rearm |-> FALSE, byte |-> 0,
     judged |-> "none"]

\* the application constructed and connected to the device, the sweep sample count set to
\* the smallest value its spin admits; every other field has its constructed value
Init ==
    /\ sh = SerialHandler0
    /\ mw = MainWindow0
    /\ \E c \in Circuits :
          port = [rx |-> EmptyBuf, dev |-> EmptyBuf, out |-> <<>>, circuit |-> c]
    /\ obs = Obs0

\* the world a handler named ev starts in: nothing written, emitted or started yet
Begin(ev) ==
    [World EXCEPT !.port.out = <<>>, !.obs.ev = ev, !.obs.start = "none",
                  !.obs.frame = NoFrame, !.obs.err = 0 - 1, !.obs.delivered = 0,
                  !.obs.rearm = FALSE, !.obs.byte = 0, !.obs.judged = "none"]

\* the handler has run to completion and left the world w
Becomes(w) ==
    /\ Len(w.mw.modeTimers) <= MaxPending
    /\ w.mw.stepTimers <= MaxPending
    /\ w.mw.settleTimers <= MaxPending
    /\ w.mw.trigTimers <= MaxPending
    /\ sh' = w.sh
    /\ mw' = w.mw
    /\ port' = w.port
    /\ obs' = w.obs

\* a user command: at most MaxUser of them in one behaviour
Click(ev) == [Begin(ev) EXCEPT !.obs.clicks = @ + 1]
MayClick == obs.clicks < MaxUser

\* values of the byte the device answers the capture command with (the acknowledgment
\* of the usual firmware and the two ends of the byte range)
AckValues == {0, 6, 255}

\* sample rates the model's user selects in the combo (50 kS/s)
UserRates == {5}

Run == MayClick /\ Becomes(OnRunClicked(Click("Run")))
Stop == MayClick /\ Becomes(OnStopClicked(Click("Stop")))
Abort == MayClick /\ Becomes(OnAbortClicked(Click("Abort")))
ModeChanged ==
    /\ MayClick
    /\ \E index \in 0..2 : Becomes(OnModeChanged(Click("ModeChanged"), index))
SampleRateChanged ==
    /\ MayClick
    /\ \E index \in UserRates :
          /\ index # mw.sampleRateCombo
          /\ Becomes(OnSampleRateChanged([Click("SampleRateChanged") EXCEPT
                                             !.mw.sampleRateCombo = index], index))
\* trigger sources the model's user selects (CH1)
UserTrigSources == {1}
\* the user clicks a trigger source radio, which checks it
TrigSourceChanged ==
    /\ MayClick
    /\ \E idx \in UserTrigSources :
          Becomes(OnTrigSourceChanged([Click("TrigSourceChanged") EXCEPT
                                          !.mw.trigRadio = idx,
                                          !.obs.autoSwitched = FALSE], idx))
SweepStartStop == MayClick /\ Becomes(OnSweepStartStopClicked(Click("SweepStartStop")))
StopSweepClicked == MayClick /\ Becomes(OnStopSweepClicked(Click("StopSweepClicked")))

\* the 50 ms setup timer expires
SetupTick ==
    /\ sh.setupActive
    /\ Becomes(HandleSetupStep([Begin("SetupTick") EXCEPT !.sh.setupActive = FALSE]))

\* the state timeout expires
StateTimeout ==
    /\ sh.timeoutActive
    /\ Becomes(OnStateTimeout(Begin("StateTimeout")))

\* the open port reports an error (a failed or timed-out write, a framing error, the
\* device unplugged)
PortError ==
    /\ mw.isConnected
    /\ Becomes(HandleError(Begin("PortError")))

\* the single-shot of onModeChanged expires
ModeTimer ==
    /\ mw.modeTimers # <<>>
    /\ Becomes(ModeChangeRestart([Begin("ModeTimer") EXCEPT !.mw.modeTimers = Tail(@)],
                                 Head(mw.modeTimers)))

\* the single-shot of onTrigSourceChanged expires
TrigTimer ==
    /\ mw.trigTimers > 0
    /\ Becomes(TrigSourceRestart([Begin("TrigTimer") EXCEPT !.mw.trigTimers = @ - 1]))

\* the sweep's step delay expires
StepTimer ==
    /\ mw.stepTimers > 0
    /\ Becomes(SetDDSForSweep([Begin("StepTimer") EXCEPT !.mw.stepTimers = @ - 1]))

\* the sweep's settle delay expires
SettleTimer ==
    /\ mw.settleTimers > 0
    /\ Becomes(OnRunClicked([Begin("SettleTimer") EXCEPT !.mw.settleTimers = @ - 1]))

\* the device hands over bytes it owes (a piece of them or all) and the port signals readyRead
\* (the value of the first byte is kept only where the handler looks at a byte: when it
\* waits for the acknowledgment with nothing buffered yet)
DeviceDelivers ==
    /\ BufLen(port.dev) > 0
    /\ \E k \in {Min(DevChunk, BufLen(port.dev)), BufLen(port.dev)} :
       \E v \in (IF sh.acqState = "WaitingForDone" THEN AckValues ELSE {0}) :
          Becomes(HandleReadyRead([Begin("DeviceDelivers") EXCEPT
                                      !.port.rx = BufCat(@, BufTake(port.dev, k)),
                                      !.port.dev = BufDrop(@, k),
                                      !.obs.delivered = k,
                                      !.obs.byte = v]))

Next ==
    \/ Run
    \/ Stop
    \/ Abort
    \/ ModeChanged
    \/ SampleRateChanged
    \/ TrigSourceChanged
    \/ SweepStartStop
    \/ StopSweepClicked
    \/ SetupTick
    \/ StateTimeout
    \/ PortError
    \/ ModeTimer
    \/ TrigTimer
    \/ StepTimer
    \/ SettleTimer
    \/ DeviceDelivers

Spec == Init /\ [][Next]_vars

----------------------------------------------------------------------------
(* The signal generator alone: the application connected, the frequency    *)
(* spin at any of its values, and the user pressing the two buttons that   *)
(* run the generator.                                                      *)

DdsInit ==
    /\ sh = [acqState |-> "Idle"]
    /\ \E f \in MinDdsFreq..MaxDdsFreq :
          mw = [isConnected |-> TRUE, ddsFreq |-> f, dds |-> NoDds]
    /\ port = [rx |-> EmptyBuf, dev |-> EmptyBuf, out |-> <<>>]
    /\ obs = [ev |-> "Init"]

DdsBegin(ev) == [World EXCEPT !.port.out = <<>>, !.obs.ev = ev]

DdsBecomes(w) ==
    /\ sh' = w.sh
    /\ mw' = w.mw
    /\ port' = w.port
    /\ obs' = w.obs

\* MainWindow::onRunDDSButtonClicked
RunDDSButtonClicked == DdsBecomes(RunDDS(DdsBegin("RunDDSButtonClicked")))
\* the "Start DDS" button
DDSStartStopClicked == DdsBecomes(OnDDSStartStopClicked(DdsBegin("DDSStartStopClicked")))

DdsNext ==
    \/ RunDDSButtonClicked
    \/ DDSStartStopClicked

DdsSpec == DdsInit /\ [][DdsNext]_vars

----------------------------------------------------------------------------
(* Properties *)

\* the channel lengths a request asks for: <<CH1 bytes, CH2 bytes>>
ExpectedLens(req) ==
    IF req.dual THEN <<DualLen, DualLen>>
    ELSE IF req.mode = 2 THEN <<SingleLen, 0>> ELSE <<0, SingleLen>>
FrameLens(f) == <<BufLen(f.ch1), BufLen(f.ch2)>>

\* the state machine waits for the last bytes of its acquisition
LastWait(s) ==
    \/ s.acqState = "WaitingForCh2"
    \/ (s.acqState = "WaitingForCh1" /\ ~s.acqDualChannel /\ s.acqMode = 2)

\* C1: a start call made while an earlier acquisition is in flight (setup frames being
\* paced out, or waiting for bytes) is rejected: it writes nothing to the port, does not
\* restart the setup sequence and changes no variable of the state machine.  Stated for
\* the start call of the mode-change single-shot, which does nothing but that call.
C1_StartInFlightRejected ==
    [][(obs'.ev = "ModeTimer" /\ mw.isRunning /\ mw.isConnected /\ InFlight(sh))
          => (sh' = sh /\ port'.out = <<>>)]_vars

C3_FrameMatchesMode ==
    obs.frame # NoFrame => FrameLens(obs.frame) = ExpectedLens(obs.frame.req)

\* C4: when the state timeout expires (in WaitingForDone, WaitingForCh1 or WaitingForCh2)
\* the bytes received so far are dropped, one error naming that state is emitted, no frame
\* is emitted and nothing is written, and the state machine is Idle with no acquisition in
\* progress and no timer pending; a start call made after a timeout is accepted.
C4_TimeoutRecovers ==
    [][/\ obs'.ev = "StateTimeout"
             => /\ sh.acqState \in Waiting
                /\ obs'.err = StateNo(sh.acqState)
                /\ port'.rx = EmptyBuf
                /\ obs'.frame = NoFrame
                /\ port'.out = <<>>
                /\ sh'.acqState = "Idle"
                /\ ~sh'.acquisitionInProgress
                /\ ~sh'.timeoutActive
                /\ ~sh'.setupActive
       /\ (obs.timedOut /\ obs'.start # "none") => obs'.start = "accepted"]_vars

\* after a timeout, an acquisition started later has run to its frame
C4_Witness ==
    /\ obs.timedOut
    /\ obs.frame # NoFrame
    /\ FrameLens(obs.frame) = ExpectedLens(obs.frame.req)

\* C5: after Abort, and until the next start, the state machine is Idle with no
\* acquisition in flight, the bytes received are dropped, no capture ('C') or read ('D')
\* command is written and no frame is emitted.
C5_AbortSilences ==
    obs.aborted =>
        /\ ~InFlight(sh)
        /\ port.rx = EmptyBuf
        /\ obs.frame = NoFrame
        /\ \A i \in DOMAIN port.out : port.out[i][1] \notin {"C", "D"}

\* C6: the setup frames of an acquisition carry the configuration the SerialHandler held
\* when the acquisition was started, whatever setProtocolParams did since.
C6_SetupUsesSnapshot ==
    \A i \in DOMAIN obs.setupLog :
        LET f == obs.setupLog[i]
        IN  /\ f[1] = "T" => f[2] = Byte(obs.snap.trigSource)
            /\ f[1] = "P" => f[2] = Byte(obs.snap.trigPolarity)
            /\ f[1] = "L" => (f[2] = Byte(obs.snap.trigLevel \div 256) /\ f[3] = Byte(obs.snap.trigLevel))
            /\ f[1] = "S" => f[2] = Byte(obs.snap.sampleRateIdx)

\* C7: once a running sweep was cancelled, no step-delay or settle timer of the sweep
\* writes anything to the device: the DDS and the sample rate are not reprogrammed and no
\* acquisition is started.
C7_CancelStopsSweep ==
    obs.cancelled => ~(obs.ev \in {"StepTimer", "SettleTimer"} /\ port.out # <<>>)

\* C8: a sweep cancelled after k of its N points (0 < k < N) has k magnitudes and k phases.
C8_PartialBode ==
    (obs.cancelled /\ Len(mw.sweepInputWaves) > 0)
        => /\ Len(mw.sweepMagnitudes) = Len(mw.sweepInputWaves)
           /\ Len(mw.sweepPhases) = Len(mw.sweepInputWaves)

\* the sweep has captured its last point
SweepComplete ==
    /\ ~mw.sweepRunning
    /\ Len(mw.sweepFrequencies) > 0
    /\ mw.sweepIndex >= Len(mw.sweepFrequencies)

\* C9: after a sweep over N points has completed, the frequency, input-frame,
\* output-frame, magnitude and phase lists all have length N.
C9_CompleteSweepLengths ==
    SweepComplete =>
        /\ Len(mw.sweepFrequencies) = mw.sweepSamples
        /\ Len(mw.sweepInputWaves) = mw.sweepSamples
        /\ Len(mw.sweepOutputWaves) = mw.sweepSamples
        /\ Len(mw.sweepMagnitudes) = mw.sweepSamples
        /\ Len(mw.sweepPhases) = mw.sweepSamples

\* a sweep has completed in CH1-only mode: every point has an empty output frame
C9_Witness ==
    /\ SweepComplete
    /\ Len(mw.sweepMagnitudes) = MinSweepSamples
    /\ mw.sweepOutputWaves[1].len = 0

\* the amplitudes plotBodePlot computes for a recorded wave
BodeAmplitude == [wv \in WaveSet |-> Amplitude(Mid(Samples(wv), BodeSkip))]

\* C10: in a plotted sweep, point k is marked invalid exactly when its input amplitude or
\* its output amplitude is at most 1e-9 V, and every invalid point has magnitude 0.0 dB.
C10_InvalidPointsAtZero ==
    (Len(mw.sweepMagnitudes) > 0 /\ Len(mw.sweepMagnitudes) = Len(mw.sweepInputWaves)) =>
        \A k \in DOMAIN mw.sweepMagnitudes :
            LET invalid == \E j \in DOMAIN mw.invalidFreqs :
                               mw.invalidFreqs[j] = mw.sweepFrequencies[k]
            IN  /\ invalid <=> (\/ AmpLeqEps(BodeAmplitude[mw.sweepInputWaves[k]])
                                \/ AmpLeqEps(BodeAmplitude[mw.sweepOutputWaves[k]]))
                /\ invalid => mw.sweepMagnitudes[k] = "0.0"

----------------------------------------------------------------------------
(* Properties of the signal generator *)

\* the handler that has just run called runDDS
RanDDS == obs.ev \in {"RunDDSButtonClicked", "DDSStartStopClicked"}

\* C11: every runDDS call writes exactly four frames: the period frame 'p', the sample
\* count frame 'N', the waveform upload 'r',0,0 followed by the table bytes, and the
\* start frame 'f', each once and in that order
C11_DdsFramesInOrder ==
    RanDDS =>
        /\ Len(port.out) = 4
        /\ port.out[1] = <<"p", Byte(mw.dds.timer_period \div 256), mw.dds.timer_period % 256>>
        /\ port.out[2] = <<"N", Byte(mw.dds.no_of_samples \div 256), mw.dds.no_of_samples % 256>>
        /\ port.out[3] = <<"r", 0, 0>> \o SubSeq(mw.dds.DDS_Table, 1, mw.dds.no_of_samples)
        /\ port.out[4] = <<"f", 0, 0>>

\* a runDDS call in each branch of the planner has written its frames
C11_Witness ==
    /\ RanDDS
    /\ mw.dds.Frequency = 5000
    /\ Len(port.out) = 4
    /\ Len(port.out[3]) = 3 + 128

\* C12: for every frequency of the spin the planner's timer period is in 1..65535 and
\* its sample count in 1..512, and when neither was clipped the realized frequency
\* (32 MHz / timer_period) / sample_count is within 2 % of the target
C12_PlannerInRange ==
    RanDDS =>
        LET d == mw.dds
            product == d.Frequency * d.timer_period * d.no_of_samples
            diff == IF product > TimerClock THEN product - TimerClock ELSE TimerClock - product
        IN  /\ d.timer_period \in 1..MaxTimerPeriod
            /\ d.no_of_samples \in 1..MaxSamples
            /\ ~d.clipped => 50 * diff <= product

\* the planner has run for 15385 Hz, unclipped: 32 MHz / 32 / 64 = 15625 Hz, more than
\* 1.5 % and less than 2 % above the target
C12_Witness ==
    /\ RanDDS
    /\ mw.dds.Frequency = 15385
    /\ mw.dds.timer_period = 32
    /\ mw.dds.no_of_samples = 64
    /\ ~mw.dds.clipped
    /\ 200 * (TimerClock - 15385 * 32 * 64) > 3 * TimerClock

\* the smallest power of two that is at least x, for x up to 8192
Ceil2(x) ==
    LET powers == {2 ^ k : k \in 0..13}
    IN  CHOOSE p \in powers : p >= x /\ \A q \in powers : q >= x => p <= q

\* C13: the phase step runDDS obtains from nextPowerOf2 is the smallest power of two
\* that is at least max(x, 1), x being the argument get_phase_step passes, and is not zero
C13_NextPowerOf2Least ==
    (RanDDS /\ mw.dds.Frequency >= StretchBelow) =>
        LET x == PhaseStepInt(mw.dds.Frequency, TimerClock \div Divider)
        IN  /\ mw.dds.phase_step = Ceil2(Max(x, 1))
            /\ mw.dds.phase_step # 0

\* C14: a DDS request of 1000 Hz yields sample_count = 512 and timer_period = 62, and
\* the realized frequency 32 MHz / 62 / 512 is within 2 % of 1000 Hz
C14_Plan1000Hz ==
    (RanDDS /\ mw.dds.Frequency = 1000) =>
        /\ mw.dds.no_of_samples = 512
        /\ mw.dds.timer_period = 62
        /\ LET product == 1000 * mw.dds.timer_period * mw.dds.no_of_samples
               diff == IF product > TimerClock THEN product - TimerClock
                       ELSE TimerClock - product
           IN  50 * diff <= product

----------------------------------------------------------------------------
(* The smoothing of the Bode curves.  The arrays hold doubles; the model    *)
(* keeps the arithmetic of doubles (every sum and quotient is rounded to    *)
(* the nearest representable value, ties to even) with the significand      *)
(* narrowed to SignificandBits bits.  A value is an integer number of units *)
(* of at least 2^(SignificandBits-1), so that every rounding is to a whole  *)
(* number of units.                                                         *)

\* bits of the significand of a double in the model
SignificandBits == 4
\* longest array smoothed
MaxSmoothLen == 3

\* the doubles of one binade
Doubles == (2 ^ (SignificandBits - 1))..(2 ^ SignificandBits - 1)

\* the double nearest to the quotient a / b, ties to the even significand
RoundNearestEven(a, b) ==
    LET ulp == 2 ^ Max(ShiftCount(a \div b) - SignificandBits, 0)
        f == a \div (b * ulp)
        r == a % (b * ulp)
    IN  IF 2 * r > b * ulp \/ (2 * r = b * ulp /\ f % 2 = 1)
        THEN (f + 1) * ulp ELSE f * ulp

\* x + y and x / y on doubles
FAdd(x, y) == RoundNearestEven(x + y, 1)
FDiv(x, y) == RoundNearestEven(x, y)

\* a variant of the moving average that also averages each end with its one neighbour
MovingAverageEnds(data) ==
    LET N == Len(data)
    IN  IF N < 3 THEN data
        ELSE [i \in 1..N |->
                 IF i = 1 THEN FDiv(FAdd(data[1], data[2]), 2)
                 ELSE IF i = N THEN FDiv(FAdd(data[N - 1], data[N]), 2)
                 ELSE FDiv(FAdd(FAdd(data[i - 1], data[i]), data[i + 1]), 3)]

\* the movingAverage lambda of MainWindow::plotBodePlot
MovingAverage(data) ==
    LET N == Len(data)
    IN  IF N < 3 THEN data
        ELSE [i \in 1..N |->
                 IF i = 1 \/ i = N THEN data[i]
                 ELSE FDiv(FAdd(FAdd(data[i - 1], data[i]), data[i + 1]), 3)]

\* plotBodePlot has computed a magnitude array and not smoothed it yet
SmoothInit ==
    /\ sh = [acqState |-> "Idle"]
    /\ \E n \in 1..MaxSmoothLen : \E data \in [1..n -> Doubles] :
          mw = [sweepMagnitudes |-> data, smoothedMagnitudes |-> data]
    /\ port = [rx |-> EmptyBuf, dev |-> EmptyBuf, out |-> <<>>]
    /\ obs = [ev |-> "Init", passes |-> <<>>]

\* the three filter passes of plotBodePlot; obs.passes keeps the array after each pass
Smooth ==
    /\ obs.ev = "Init"
    /\ LET p1 == MovingAverage(mw.smoothedMagnitudes)
           p2 == MovingAverage(p1)
           p3 == MovingAverage(p2)
       IN  /\ mw' = [mw EXCEPT !.smoothedMagnitudes = p3]
           /\ obs' = [ev |-> "Smooth", passes |-> <<p1, p2, p3>>]
    /\ UNCHANGED <<sh, port>>

SmoothNext == Smooth

SmoothSpec == SmoothInit /\ [][SmoothNext]_vars

IsConstant(data) == \A i \in 1..Len(data) : data[i] = data[1]
\* the sum c + c + c is computed without rounding
TripleExact(c) == FAdd(FAdd(c, c), c) = 3 * c

\* C15: the moving average leaves a constant array unchanged, leaves the first and the
\* last element unchanged and keeps the length, after one pass and after all three
C15_SmoothingKeepsConstant ==
    obs.ev = "Smooth" =>
        \A k \in 1..3 :
            LET data == mw.sweepMagnitudes
                result == obs.passes[k]
            IN  /\ Len(result) = Len(data)
                /\ result[1] = data[1]
                /\ result[Len(data)] = data[Len(data)]
                /\ IsConstant(data) => result = data

\* C15 as amended: the moving average leaves the first and the last element unchanged and
\* keeps the length, and leaves a constant array unchanged when the sum of three copies
\* of the constant is exact, after one pass and after all three
C15_SmoothingKeepsExactConstant ==
    obs.ev = "Smooth" =>
        \A k \in 1..3 :
            LET data == mw.sweepMagnitudes
                result == obs.passes[k]
            IN  /\ Len(result) = Len(data)
                /\ result[1] = data[1]
                /\ result[Len(data)] = data[Len(data)]
                /\ (IsConstant(data) /\ TripleExact(data[1])) => result = data

\* a constant array with interior elements and an exact triple has been smoothed
C15_Witness ==
    /\ obs.ev = "Smooth"
    /\ Len(mw.sweepMagnitudes) = MaxSmoothLen
    /\ IsConstant(mw.sweepMagnitudes)
    /\ mw.sweepMagnitudes[1] = 12
    /\ mw.smoothedMagnitudes = mw.sweepMagnitudes

----------------------------------------------------------------------------
(* Properties of the frames on the line *)

\* C16: every frame the host writes is three bytes long, except the waveform upload
\* ('r'), which is three bytes and the planner's sample count long
C16_FramesThreeBytes ==
    \A i \in 1..Len(port.out) :
        IF port.out[i][1] = "r"
        THEN Len(port.out[i]) = 3 + mw.dds.no_of_samples
        ELSE Len(port.out[i]) = 3

----------------------------------------------------------------------------
(* Properties of error handling *)

\* C17: when the port reports an error while an acquisition is in flight, the state
\* machine is Idle after the error handler: no acquisition in progress, no setup frame
\* and no state timeout pending
C17_PortErrorResets ==
    [][(obs'.ev = "PortError" /\ InFlight(sh))
          => /\ sh'.acqState = "Idle"
             /\ ~sh'.acquisitionInProgress
             /\ ~sh'.setupActive
             /\ ~sh'.timeoutActive]_vars

\* C18: once a frame whose range on the selected trigger channel does not contain the
\* trigger level has switched the controller to auto trigger, every trigger-source frame
\* ('T') the host writes, those of the setup sequences included, names the source Auto
\* (0), until the user selects a source
C18_AutoTriggerAfterOutOfRange ==
    obs.autoSwitched =>
        \A i \in 1..Len(port.out) : port.out[i][1] = "T" => port.out[i][2] = 0

----------------------------------------------------------------------------
(* The ADC-to-volts conversion of the frame callback on its own. A double is modelled
   with a significand of AdcSignificandBits bits and is kept as an integer multiple of
   2^-(AdcSignificandBits + 8); every product, sum and difference is rounded to the
   nearest double, ties to the even significand, as the machine rounds it. *)

AdcSignificandBits == 16

\* 1.0
AdcOne == 2 ^ (AdcSignificandBits + 8)

\* the integer nearest to a / b, ties to even (a >= 0, b > 0)
NearestEven(a, b) ==
    LET f == a \div b
        r == a % b
    IN  IF 2 * r > b \/ (2 * r = b /\ f % 2 = 1) THEN f + 1 ELSE f

\* the exact value n rounded to the nearest double
Fl(n) ==
    IF n = 0 THEN 0
    ELSE LET a == IF n < 0 THEN 0 - n ELSE n
             e == CHOOSE k \in 0..30 : a \div (2 ^ k) = 1
             ulp == 2 ^ Max(e + 1 - AdcSignificandBits, 0)
             m == NearestEven(a, ulp) * ulp
         IN  IF n < 0 THEN 0 - m ELSE m

\* the double a decimal literal a / 100 denotes, and the double quotient of the
\* integer a by 100.0 (a > 0)
Centi(a) ==
    LET s == CHOOSE k \in 0..30 : (a * 2 ^ k) \div 100 \in
                                      (2 ^ (AdcSignificandBits - 1))..(2 ^ AdcSignificandBits - 1)
    IN  NearestEven(a * 2 ^ s, 100) * 2 ^ (AdcSignificandBits + 8 - s)

\* const double scaleFactor = 5.0 / 4.8, in units of 2^-(AdcSignificandBits - 1)
ScaleFactor == RoundDiv(25 * 2 ^ (AdcSignificandBits - 1), 24)

\* double ch1UIOffset = (ch1Offset / 100.0) / 2.0
UIOffset(chOffset) ==
    IF chOffset = 0 THEN 0
    ELSE IF chOffset < 0 THEN 0 - (Centi(0 - chOffset) \div 2)
    ELSE Centi(chOffset) \div 2

\* a faulty variant of the conversion: the gain is not applied
AdcToVoltsNoGain(adcValue, chGain, chOffset) ==
    LET scaled == Fl((adcValue * 5 - 640) * ScaleFactor) * 8
        voltage == Fl(Fl(scaled + 4 * AdcOne) + UIOffset(chOffset))
    IN  Fl(voltage - Centi(378))

\* voltage = (((adcValue * 10.0 / 128.0) - 10.0 + OC1) * scaleFactor / ch1Gain) + OC1
\*           + fixedOffset + ch1UIOffset; voltage -= 3.78
\* adcValue * 10.0 / 128.0 - 10.0 is exact (a multiple of 1/64), OC1 is 0.0 and adds
\* nothing, the division by the gain (a power of two) is exact
AdcToVolts(adcValue, chGain, chOffset) ==
    LET scaled == (Fl((adcValue * 5 - 640) * ScaleFactor) * 8) \div chGain
        voltage == Fl(Fl(scaled + 4 * AdcOne) + UIOffset(chOffset))
    IN  Fl(voltage - Centi(378))

\* the values of the gain combos
Gains == {1, 2, 4, 8, 16, 32}
\* positions of the offset slider the conversion is checked at (its ends, its centre and
\* values between)
AdcOffsets == {-1694, -250, 0, 37, 1695}

\* the conversion loop of the callback over the bytes of a frame
ConvertCh(ch, chGain, chOffset) == [i \in 1..Len(ch) |-> AdcToVolts(ch[i], chGain, chOffset)]

\* a frame of three consecutive ADC codes has arrived for CH1
AdcInit ==
    /\ \E a \in 0..253 : sh = [acqState |-> "Complete", ch1Raw |-> <<a, a + 1, a + 2>>]
    /\ \E g \in Gains : \E off \in AdcOffsets :
          mw = [ch1Gain |-> g, ch1Offset |-> off, ch1Volts |-> <<>>]
    /\ port = [rx |-> EmptyBuf, dev |-> EmptyBuf, out |-> <<>>]
    /\ obs = [ev |-> "Init"]

\* the callback converts the frame
Convert ==
    /\ obs.ev = "Init"
    /\ mw' = [mw EXCEPT !.ch1Volts = ConvertCh(sh.ch1Raw, mw.ch1Gain, mw.ch1Offset)]
    /\ obs' = [ev |-> "Convert"]
    /\ UNCHANGED <<sh, port>>

AdcNext == Convert

AdcSpec == AdcInit /\ [][AdcNext]_vars

\* the gains in rising order
GainSeq == <<1, 2, 4, 8, 16, 32>>

\* for one ADC byte the volts do not rise, or do not fall, as the gain grows
MonotonicInGain(adcValue, chOffset) ==
    LET volts == [k \in 1..6 |-> AdcToVolts(adcValue, GainSeq[k], chOffset)]
    IN  \/ \A k \in 1..5 : volts[k] <= volts[k + 1]
        \/ \A k \in 1..5 : volts[k] >= volts[k + 1]

\* C19: for fixed gain and UI offset consecutive ADC codes differ by the same amount,
\* and for a fixed ADC byte the volts are monotonic in the gain
C19_ConversionLinear ==
    obs.ev = "Convert" =>
        /\ mw.ch1Volts[2] - mw.ch1Volts[1] = mw.ch1Volts[3] - mw.ch1Volts[2]
        /\ \A i \in 1..3 : MonotonicInGain(sh.ch1Raw[i], mw.ch1Offset)

\* four units in the last place of a double in [16, 32)
AdcTolerance == 4 * 2 ^ 13

\* C19 as it holds: consecutive ADC codes differ by 10/128 * (5/4.8) / gain up to the
\* rounding of the double operations (four units in the last place of a double below
\* 32), and for a fixed ADC byte the volts are monotonic in the gain
C19_ConversionLinearRounded ==
    obs.ev = "Convert" =>
        /\ Len(mw.ch1Volts) = 3
        /\ \A i \in 1..2 :
              LET d == mw.ch1Volts[i + 1] - mw.ch1Volts[i]
                  \* 3 * gain * (d - step), with step = 125 / (1536 * gain)
                  err == 3 * mw.ch1Gain * d - 125 * 2 ^ (AdcSignificandBits - 1)
              IN  /\ err <= 3 * mw.ch1Gain * AdcTolerance
                  /\ 0 - err <= 3 * mw.ch1Gain * AdcTolerance
        /\ \A i \in 1..3 : MonotonicInGain(sh.ch1Raw[i], mw.ch1Offset)

\* a frame was converted at gain 4 whose two steps differ in the last place
C19_Witness ==
    /\ obs.ev = "Convert"
    /\ mw.ch1Gain = 4
    /\ mw.ch1Volts[2] - mw.ch1Volts[1] # mw.ch1Volts[3] - mw.ch1Volts[2]

----------------------------------------------------------------------------
(* The setup sequence of the whole application *)

\* C20: when the setup sequence of an accepted start has written the capture command,
\* the frames it wrote are 'O', 'o', 'T', 'P', 'L', 'F', 'S', 'C' in this order, the
\* state is WaitingForDone and the state timeout is armed
C20_SetupSequenceOrder ==
    (obs.ev = "SetupTick" /\ sh.acqState = "WaitingForDone") =>
        /\ [i \in 1..Len(obs.setupLog) |-> obs.setupLog[i][1]]
               = <<"O", "o", "T", "P", "L", "F", "S", "C">>
        /\ sh.timeoutActive

----------------------------------------------------------------------------
(* The read phase of an acquisition *)

\* a delivery in state st that brings the buffered bytes up to the expected count
Completes(st) ==
    /\ obs'.ev = "DeviceDelivers"
    /\ sh.acqState = st
    /\ sh.bytesNeeded > 0
    /\ BufLen(port.rx) + obs'.delivered >= sh.bytesNeeded

\* C21: on receipt of the capture acknowledgment the read command and the expectation
\* depend only on the mode: dual writes D,1,0 and expects 200 bytes in WaitingForCh1,
\* CH1-only writes D,2,0 and expects 400 bytes in WaitingForCh1, CH2-only writes D,4,0
\* and expects 400 bytes in WaitingForCh2
C21_ReadCommandByMode ==
    [][Completes("WaitingForDone") =>
          /\ sh.acqDualChannel =>
                /\ port'.out = << <<"D", 1, 0>> >>
                /\ sh'.bytesNeeded = 200 /\ sh'.acqState = "WaitingForCh1"
          /\ (~sh.acqDualChannel /\ sh.acqMode = 2) =>
                /\ port'.out = << <<"D", 2, 0>> >>
                /\ sh'.bytesNeeded = 400 /\ sh'.acqState = "WaitingForCh1"
          /\ (~sh.acqDualChannel /\ sh.acqMode = 3) =>
                /\ port'.out = << <<"D", 4, 0>> >>
                /\ sh'.bytesNeeded = 400 /\ sh'.acqState = "WaitingForCh2"]_vars

\* C22: in dual mode, once the 200 CH1 bytes have been read in WaitingForCh1, D,3,0 is
\* written, 200 bytes are expected and the state is WaitingForCh2; read code 3 is written
\* only as the second half of a dual read and read code 2 only for a CH1-only read
C22_DualSecondRead ==
    [][/\ (Completes("WaitingForCh1") /\ sh.acqDualChannel) =>
             /\ port'.out = << <<"D", 3, 0>> >>
             /\ sh'.bytesNeeded = 200 /\ sh'.acqState = "WaitingForCh2"
       /\ \A i \in 1..Len(port'.out) :
             LET f == port'.out[i]
             IN  /\ (f[1] = "D" /\ f[2] = 3) =>
                       (sh.acqState = "WaitingForCh1" /\ sh.acqDualChannel)
                 /\ (f[1] = "D" /\ f[2] = 2) =>
                       (sh.acqState = "WaitingForDone" /\ ~sh.acqDualChannel /\ sh.acqMode = 2)]_vars

----------------------------------------------------------------------------
(* The state timeout *)

\* C23: whenever an acquisition is in flight, from the accepted start through the paced
\* setup sequence and the three waiting states, the state timeout is armed; it is
\* disarmed in Idle and Complete
C23_TimeoutArmedInFlight ==
    /\ InFlight(sh) => sh.timeoutActive
    /\ sh.timeoutActive => sh.acqState \notin {"Idle", "Complete"}

\* C23 as it holds: the state timeout is armed exactly in WaitingForDone, WaitingForCh1
\* and WaitingForCh2 (it is not armed while the setup frames are paced out, when the
\* state is still Idle), and every transition into one of these states starts it afresh
C23_TimeoutArmedWhileWaiting ==
    [][/\ sh'.timeoutActive <=> sh'.acqState \in Waiting
       /\ (sh'.acqState \in Waiting /\ sh'.acqState # sh.acqState) => obs'.rearm]_vars

\* the second read of a dual acquisition has been requested and the timeout restarted
C23_Witness ==
    /\ sh.acqState = "WaitingForCh2"
    /\ sh.acqDualChannel
    /\ sh.timeoutActive
    /\ obs.rearm

\* C24: whenever the state machine is Idle, in particular right after a frame has been
\* emitted, the state timeout is not pending, and no timeout is reported by the handler
\* that emits a frame
C24_NoTimeoutWhenIdle ==
    /\ sh.acqState = "Idle" => ~sh.timeoutActive
    /\ obs.frame # NoFrame => (sh.acqState = "Idle" /\ ~sh.timeoutActive /\ obs.err = 0 - 1)

\* a frame has been emitted and nothing was started after it: Idle, nothing in flight
C24_Witness ==
    /\ obs.frame # NoFrame
    /\ sh.acqState = "Idle"
    /\ ~InFlight(sh)
    /\ ~sh.acquisitionInProgress

----------------------------------------------------------------------------
(* The acknowledgment and the byte counts *)

\* C25: in WaitingForDone the first byte that arrives is taken as the acknowledgment
\* whatever its value: the read command of the mode is written and its state entered;
\* every other byte buffered at that moment is discarded before the read command goes
\* out, so that no byte received up to the acknowledgment is in a channel buffer
C25_AnyByteAcknowledges ==
    [][Completes("WaitingForDone") =>
          /\ sh'.acqState \in {"WaitingForCh1", "WaitingForCh2"}
          /\ Len(port'.out) = 1 /\ port'.out[1][1] = "D"
          /\ port'.rx = EmptyBuf
          /\ sh'.ch1Raw = EmptyBuf /\ sh'.ch2Raw = EmptyBuf
          /\ obs'.frame = NoFrame]_vars

\* the byte 0xFF was taken as the acknowledgment while more bytes than it were buffered
C25_Witness ==
    /\ obs.ev = "DeviceDelivers"
    /\ obs.byte = 255
    /\ obs.delivered > 1
    /\ obs.rearm
    /\ sh.acqState = "WaitingForCh1"
    /\ port.rx = EmptyBuf

\* C26: in WaitingForCh1 and WaitingForCh2 a notification that finds fewer bytes than
\* expected consumes none and leaves the state machine as it is; one that finds at least
\* the expected count reads exactly that many bytes into the channel, whatever they are,
\* and leaves the others in the port
C26_ExactByteCounts ==
    [][(obs'.ev = "DeviceDelivers" /\ sh.acqState \in {"WaitingForCh1", "WaitingForCh2"}) =>
          LET avail == BufLen(port.rx) + obs'.delivered
          IN  /\ avail < sh.bytesNeeded =>
                    /\ sh' = sh
                    /\ BufLen(port'.rx) = avail
                    /\ port'.out = <<>>
                    /\ obs'.frame = NoFrame
              /\ avail >= sh.bytesNeeded =>
                    /\ BufLen(port'.rx) = avail - sh.bytesNeeded
                    /\ (sh.acqState = "WaitingForCh1" /\ sh.acqDualChannel) =>
                          (BufLen(sh'.ch1Raw) = sh.bytesNeeded /\ sh'.acqState = "WaitingForCh2")
                    /\ (sh.acqState = "WaitingForCh1" /\ ~sh.acqDualChannel) =>
                          (obs'.frame # NoFrame /\ BufLen(obs'.frame.ch1) = sh.bytesNeeded)
                    /\ sh.acqState = "WaitingForCh2" =>
                          (obs'.frame # NoFrame /\ BufLen(obs'.frame.ch2) = sh.bytesNeeded)]_vars

\* the CH1 half of a dual read was read out of more bytes than expected, part of them
\* answers to an earlier acquisition
C26_Witness ==
    /\ obs.ev = "DeviceDelivers"
    /\ sh.acqState = "WaitingForCh2"
    /\ BufLen(sh.ch1Raw) = DualLen
    /\ sh.ch1Raw.old > 0
    /\ BufLen(port.rx) > 0

----------------------------------------------------------------------------
(* The sample-rate frame                                                   *)

\* C27: every 'S' frame written to the device, by the setup sequence as well as by a rate
\* change, carries the 1-based index of the rate selected in the combo box, a value in 1..14
C27_SampleRateFrameOneBased ==
    \A i \in DOMAIN port.out :
        port.out[i][1] = "S" =>
            /\ port.out[i][2] \in 1..14
            /\ port.out[i][2] = mw.sampleRateCombo + 1

----------------------------------------------------------------------------
(* The acquisition of a sweep step                                         *)

\* C28: the acquisition a sweep step starts when its settle delay has passed is a
\* dual-channel capture of 200 samples per channel, whatever mode was selected before
C28_SweepStepDual200 ==
    [][(obs'.ev = "SettleTimer" /\ obs'.start = "accepted") =>
          (obs'.req.dual /\ obs'.req.mode = 1 /\ obs'.req.len = DualLen)]_vars

----------------------------------------------------------------------------
(* The trigger decision of the frame callback.  A frame of an acquisition  *)
(* in the selected mode reaches the callback with a trigger source, level  *)
(* and polarity selected and an earlier dual frame on display.             *)

\* trigger levels of the slider: 0 V and -0.1 V
TrigLevels == {2048, 2028}
\* the frame on display
ShownWave == [len |-> DualLen, sig |-> "tri"]

TrigInit ==
    /\ port = [rx |-> EmptyBuf, dev |-> EmptyBuf, out |-> <<>>, circuit |-> "lowpass"]
    /\ obs = Obs0
    /\ \E acquisitionMode \in 0..2, isRunning \in BOOLEAN, idx \in 0..2,
          trigLevel \in TrigLevels, trigPolarity \in 0..1 :
          /\ mw = [MainWindow0 EXCEPT !.acquisitionMode = acquisitionMode,
                                      !.dataLength = IF acquisitionMode = 0 THEN DualLen
                                                     ELSE SingleLen,
                                      !.isRunning = isRunning,
                                      !.trigRadio = idx,
                                      !.trigSource = idx,
                                      !.trigLevel = trigLevel,
                                      !.trigPolarity = trigPolarity,
                                      !.ch1Buffer = ShownWave,
                                      !.ch2Buffer = ShownWave]
          /\ sh = [SerialHandler0 EXCEPT !.acqState = "Complete",
                                         !.acquisitionInProgress = TRUE,
                                         !.acqMode = SerialMode(mw),
                                         !.acqDataLength = mw.dataLength,
                                         !.acqDualChannel = SerialDualChannel(mw),
                                         !.trigSource = idx,
                                         !.trigLevel = trigLevel,
                                         !.trigPolarity = trigPolarity]

\* the frame of the acquisition, converted to volts, runs through the callback (history:
\* the waves and the trigger radio the callback started with)
FrameJudged ==
    /\ obs.ev = "Init"
    /\ \E sig1 \in TrigSignals, sig2 \in TrigSignals :
          LET ch1Volts == IF mw.acquisitionMode = 2 THEN EmptyWave
                          ELSE [len |-> mw.dataLength, sig |-> sig1]
              ch2Volts == IF mw.acquisitionMode = 1 THEN EmptyWave
                          ELSE [len |-> mw.dataLength, sig |-> sig2]
              w == [World EXCEPT !.obs.ev = "FrameJudged",
                                 !.obs.inCallback = TRUE,
                                 !.obs.frame = [kind |-> "volts", ch1 |-> ch1Volts,
                                                ch2 |-> ch2Volts, radio |-> mw.trigRadio]]
          IN  Becomes(ResetAcquisitionState(
                  [OnFrameVolts(w, ch1Volts, ch2Volts, mw.dataLength)
                      EXCEPT !.obs.inCallback = FALSE]))

TrigNext == FrameJudged

TrigSpec == TrigInit /\ [][TrigNext]_vars

\* the samples v cross the level L on an edge of the polarity set: v[i-1] < L <= v[i]
\* with L->H (0), v[i-1] > L >= v[i] with H->L (1)
EdgeCrossing(v, L, polarity) ==
    \E i \in 2..Len(v) :
        IF polarity = 0 THEN v[i - 1] < L /\ L <= v[i]
        ELSE v[i - 1] > L /\ L >= v[i]

\* C29: with the trigger source CH1 or CH2 a frame is judged triggered exactly when the
\* selected channel crosses the trigger level on an edge of the polarity set
C29_EdgeTrigger ==
    (obs.ev = "FrameJudged" /\ obs.frame.radio \in {1, 2}) =>
        LET wv == IF obs.frame.radio = 1 THEN obs.frame.ch1 ELSE obs.frame.ch2
            L == TrigLine(mw.trigLevel, ChGain2)
        IN  (obs.judged = "triggered") <=> EdgeCrossing(Samples(wv), L, mw.trigPolarity)

\* two samples of the wave differ by more than d (in 0.01 V)
RangeExceeds(wv, d) ==
    \E i, j \in 0..(wv.len - 1) : Sample(wv.sig, i) - Sample(wv.sig, j) > d

----------------------------------------------------------------------------
(* The sample count of the signal generator                                *)

\* C31: in the standard path (Frequency >= 1000 Hz) the sample count written in the 'N'
\* frame is the count the table-fill loop of GetCount_GetIndex stopped at, so that every
\* uploaded entry was written by the loop and none by the padding after it
C31_SampleCountIsLoopCount ==
    (obs.ev # "Init" /\ mw.dds.Frequency >= StretchBelow) =>
        \A i \in DOMAIN port.out :
            port.out[i][1] = "N" =>
                port.out[i][2] * 256 + port.out[i][3] =
                    DdsTables[mw.dds.phase_step].intermediate_dds_count

----------------------------------------------------------------------------
(* The averaging of the 2 Ms/s rate.  The converted samples of a frame are *)
(* sequences of volts in units of 0.005 V (the samples themselves are      *)
(* multiples of 0.01 V, so that the mean of two of them is a whole number  *)
(* of units); short frames stand for the 200 and 400 samples of a capture. *)

MaxAvgLen == 4

\* a faulty variant of the averaging: the odd entries repeat a sample instead of
\* averaging two
AverageNoMean(temp, dataLength) ==
    [k \in 1..dataLength |-> temp[((k - 1) \div 2) + 1]]

\* the averaging block of the callback for one channel: temp is the channel as
\* converted, the result is the channel after resize(dataLength) and the loop over the
\* odd indices i, which writes entry i and entry i + 1 (entry k here is index k - 1)
Average(temp, dataLength) ==
    LET size == Len(temp)
        resized(i) == IF i < size THEN temp[i + 1] ELSE 0
        at(i) == IF i = 0 THEN temp[1]
                 ELSE IF i % 2 = 1
                 THEN IF (i \div 2) + 1 < size
                      THEN (temp[(i \div 2) + 1] + temp[(i \div 2) + 2]) \div 2
                      ELSE temp[(i \div 2) + 1]
                 ELSE IF ((i - 1) \div 2) + 1 < size THEN temp[((i - 1) \div 2) + 2]
                 ELSE resized(i)
    IN  [k \in 1..dataLength |-> at(k - 1)]

\* the block as a whole: it runs with the first combo entry (2 Ms/s) selected and
\* skips an empty channel
ApplyAveraging(m) ==
    IF m.sampleRateCombo = 0
    THEN [m EXCEPT !.ch1Volts = IF @ = <<>> THEN @ ELSE Average(@, m.dataLength),
                   !.ch2Volts = IF @ = <<>> THEN @ ELSE Average(@, m.dataLength)]
    ELSE m

\* a frame of dataLength samples per captured channel has been converted, with the
\* 2 Ms/s rate or the initial rate selected
AvgInit ==
    /\ sh = [acqState |-> "Complete"]
    /\ port = [rx |-> EmptyBuf, dev |-> EmptyBuf, out |-> <<>>]
    /\ \E dataLength \in 2..MaxAvgLen, index \in {0, DefaultRateIdx} :
       \E ch1 \in [1..dataLength -> {0, 2, 6}], ch2 \in [1..dataLength -> {0, 2, 6}] \cup {<<>>} :
          /\ mw = [sampleRateCombo |-> index, dataLength |-> dataLength,
                   ch1Volts |-> ch1, ch2Volts |-> ch2]
          /\ obs = [ev |-> "Init", ch1 |-> ch1, ch2 |-> ch2]

\* the callback reaches the averaging block (history: the channels as converted)
AverageFrame ==
    /\ obs.ev = "Init"
    /\ mw' = ApplyAveraging(mw)
    /\ obs' = [obs EXCEPT !.ev = "AverageFrame"]
    /\ UNCHANGED <<sh, port>>

AvgSpec == AvgInit /\ [][AverageFrame]_vars

\* out is in averaged for the 2 Ms/s rate: n samples, the first one kept, the odd ones
\* the mean of two neighbours, the even ones a sample (indices from 0)
Averaged(in, out, n) ==
    /\ Len(out) = n
    /\ out[1] = in[1]
    /\ \A i \in 1..(n - 1) :
          out[i + 1] = IF i % 2 = 1 THEN (in[(i \div 2) + 1] + in[(i \div 2) + 2]) \div 2
                       ELSE in[(i \div 2) + 1]

\* C32: with the 2 Ms/s rate selected the converted samples of a channel are replaced
\* by out[0] = in[0], out[i] = (in[i/2] + in[i/2+1]) / 2 for odd i, out[i] = in[i/2] for
\* even i, data_length samples in all; at any other rate they pass unchanged
C32_Averaging2Mbps ==
    obs.ev = "AverageFrame" =>
        IF mw.sampleRateCombo = 0
        THEN /\ Averaged(obs.ch1, mw.ch1Volts, mw.dataLength)
             /\ obs.ch2 # <<>> => Averaged(obs.ch2, mw.ch2Volts, mw.dataLength)
             /\ obs.ch2 = <<>> => mw.ch2Volts = <<>>
        ELSE mw.ch1Volts = obs.ch1 /\ mw.ch2Volts = obs.ch2

\* a frame of four samples was averaged and its odd entries differ from the samples
C32_Witness ==
    /\ obs.ev = "AverageFrame"
    /\ mw.sampleRateCombo = 0
    /\ obs.ch1 = <<0, 2, 6, 0>>
    /\ mw.ch1Volts = <<0, 1, 2, 4>>

----------------------------------------------------------------------------
(* The digital frequency generator: the application connected, the         *)
(* frequency spin at any of its values, the user pressing "Start Freq Gen" *)

MinDigFreq == 1             \* digFreqSpin->setRange(1, 100000)
MaxDigFreq == 100000

\* a faulty variant of setDigitalFrequency: the ladder stops at the divider 8
SetDigitalFrequencyShortLadder(w, dig_freq) ==
    LET c0 == (32 * 1000000) \div dig_freq
        c1 == c0 \div 2
        c2 == c1 \div 2
        c3 == c2 \div 2
        plan == IF c0 <= 65535 THEN [dig_count |-> c0, dig_index |-> 0]
                ELSE IF c1 <= 65535 THEN [dig_count |-> c1, dig_index |-> 1]
                ELSE IF c2 <= 65535 THEN [dig_count |-> c2, dig_index |-> 2]
                ELSE [dig_count |-> c3, dig_index |-> 3]
    IN  SendCommand(SendCommand(w, <<"c", Byte(plan.dig_count \div 256), plan.dig_count % 256>>),
                    <<"d", Byte(plan.dig_index), 0>>)

\* MainWindow::setDigitalFrequency(dig_freq): the count of the 32 MHz clock is halved,
\* halved, halved, divided by 8, by 4 and by 4 while it exceeds 65535; the count frame
\* and the divider-index frame are written
SetDigitalFrequency(w, dig_freq) ==
    LET c0 == (32 * 1000000) \div dig_freq
        c1 == c0 \div 2
        c2 == c1 \div 2
        c3 == c2 \div 2
        c4 == c3 \div 8
        c5 == c4 \div 4
        c6 == c5 \div 4
        plan == IF c0 <= 65535 THEN [dig_count |-> c0, dig_index |-> 0]
                ELSE IF c1 <= 65535 THEN [dig_count |-> c1, dig_index |-> 1]
                ELSE IF c2 <= 65535 THEN [dig_count |-> c2, dig_index |-> 2]
                ELSE IF c3 <= 65535 THEN [dig_count |-> c3, dig_index |-> 3]
                ELSE IF c4 <= 65535 THEN [dig_count |-> c4, dig_index |-> 4]
                ELSE IF c5 <= 65535 THEN [dig_count |-> c5, dig_index |-> 5]
                ELSE [dig_count |-> c6, dig_index |-> 6]
    IN  SendCommand(SendCommand(w, <<"c", Byte(plan.dig_count \div 256), plan.dig_count % 256>>),
                    <<"d", Byte(plan.dig_index), 0>>)

DigInit ==
    /\ sh = [acqState |-> "Idle"]
    /\ \E f \in MinDigFreq..MaxDigFreq : mw = [isConnected |-> TRUE, digFreq |-> f]
    /\ port = [rx |-> EmptyBuf, dev |-> EmptyBuf, out |-> <<>>]
    /\ obs = [ev |-> "Init"]

\* the lambda connected to the clicked signal of digFreqStartBtn
DigFreqStartClicked ==
    DdsBecomes(SetDigitalFrequency(DdsBegin("DigFreqStartClicked"), mw.digFreq))

DigSpec == DigInit /\ [][DigFreqStartClicked]_vars

\* the dividers of the ladder, by index
DigDividers == <<1, 2, 4, 8, 64, 256, 1024>>

\* C33: for every target frequency of the spin the count written is 32 000 000 / f_d
\* divided by the first divider of the ladder that brings it to 65535 or below, the
\* index written is the index of that divider, and the frame 'c' precedes the frame 'd'
C33_DigitalLadder ==
    obs.ev = "DigFreqStartClicked" =>
        LET count(i) == ((32 * 1000000) \div mw.digFreq) \div DigDividers[i + 1]
            fits == {i \in 0..6 : count(i) <= 65535}
        IN  /\ fits # {}
            /\ \E i \in fits :
                  /\ \A j \in fits : i <= j
                  /\ port.out = << <<"c", count(i) \div 256, count(i) % 256>>, <<"d", i, 0>> >>

\* 1 Hz was requested: the ladder was descended to its last divider
C33_Witness ==
    /\ obs.ev = "DigFreqStartClicked"
    /\ mw.digFreq = 1
    /\ port.out = << <<"c", 122, 18>>, <<"d", 6, 0>> >>

----------------------------------------------------------------------------
(* The continuous run                                                      *)

\* C34: when the frame callback starts the next acquisition, the mode, the dual-channel
\* flag and the data length given to that start are still the ones of the SerialHandler
\* when the handler that emitted the frame returns
C34_NestedStartKeepsParams ==
    (obs.ev = "DeviceDelivers" /\ obs.frame # NoFrame /\ obs.start = "accepted" /\ obs.req.nested) =>
        /\ sh.acqMode = obs.req.mode
        /\ sh.acqDualChannel = obs.req.dual
        /\ sh.acqDataLength = obs.req.len

\* C35: the byte taken as the acknowledgment answers the capture command of the
\* acquisition that takes it, and no byte of an emitted frame answers a command of an
\* earlier acquisition
C35_NoStaleBytes ==
    [][/\ (obs'.ev = "DeviceDelivers" /\ sh.acqState = "WaitingForDone"
                                      /\ sh'.acqState \in {"WaitingForCh1", "WaitingForCh2"})
             => (port.rx.old = 0 /\ port.dev.old = 0)
       /\ obs'.frame # NoFrame => (obs'.frame.ch1.old = 0 /\ obs'.frame.ch2.old = 0)]_vars

\* C36: while the scope is running and connected, outside a sweep, the handler that
\* emits a frame also starts the next acquisition, whatever the trigger logic made of
\* the frame
C36_EveryFrameRearms ==
    [][(/\ obs'.ev = "DeviceDelivers"
        /\ obs'.frame # NoFrame
        /\ mw.isRunning /\ mw.isConnected /\ ~mw.sweepRunning
        /\ mw'.isRunning /\ mw'.isConnected)
          => (obs'.start = "accepted" /\ sh'.setupActive)]_vars

\* the first bytes of the frames of a log
Letters(log) == [i \in 1..Len(log) |-> log[i][1]]
\* the frames one setup sequence writes, by their first bytes
SetupLetters == <<"T", "P", "L", "F", "S", "C">>
IsPrefix(a, b) == Len(a) <= Len(b) /\ a = SubSeq(b, 1, Len(a))

----------------------------------------------------------------------------
(* The course of a sweep                                                   *)

\* no acquisition is in flight and no settle delay of the sweep, which would start one,
\* is pending
Quiet == ~InFlight(sh) /\ mw.settleTimers = 0

\* C38: during a sweep every captured frame advances the sweep index by exactly one and
\* is recorded as the next point; the sweep ends, uncancelled, with the frame that makes
\* the index N, and the handler of that frame starts no acquisition and leaves none in
\* flight or scheduled
C38_SweepCapturesN ==
    [][/\ (obs'.frame # NoFrame /\ mw.sweepRunning) =>
             /\ mw'.sweepIndex = mw.sweepIndex + 1
             /\ Len(mw'.sweepInputWaves) = mw'.sweepIndex
             /\ Len(mw'.sweepOutputWaves) = mw'.sweepIndex
             /\ mw'.sweepRunning <=> mw'.sweepIndex < Len(mw.sweepFrequencies)
       /\ (mw.sweepRunning /\ ~mw'.sweepRunning /\ ~obs'.cancelled) =>
             /\ obs'.frame # NoFrame
             /\ mw'.sweepIndex = Len(mw'.sweepFrequencies)
             /\ obs'.start = "none"
             /\ Quiet']_vars

-----------------------------------------------------------------------------
(* Stop *)

\* the handlers that call onRunClicked: the Run button, the restart single-shot of a
\* trigger radio and the settle single-shot of a sweep step
RunInvoked == {"Run", "TrigTimer", "SettleTimer"}

\* C39: onStopClicked leaves the run stopped and starts nothing; while the run is stopped a
\* handler that does not call onRunClicked starts no acquisition and leaves the run
\* stopped, and the acquisition in flight, when it emits its frame, leaves none behind
C39_StopEndsRun ==
    [][/\ obs'.ev = "Stop" => (~mw'.isRunning /\ obs'.start = "none")
       /\ (~mw.isRunning /\ obs'.ev \notin RunInvoked) =>
             /\ obs'.start = "none"
             /\ ~mw'.isRunning
             /\ obs'.frame # NoFrame => (~InFlight(sh') /\ ~obs'.rearm)]_vars

\* the acquisition that was in flight at a Stop has emitted its frame and nothing follows
C39_Witness ==
    /\ obs.ev = "DeviceDelivers" /\ obs.frame # NoFrame
    /\ ~mw.isRunning /\ ~mw.sweepRunning /\ mw.isConnected
    /\ obs.start = "none" /\ ~InFlight(sh)
    /\ mw.trigTimers = 0 /\ mw.settleTimers = 0 /\ mw.stepTimers = 0

-----------------------------------------------------------------------------
(* Bytes that arrive while Idle *)

\* C40: bytes the port delivers while the state machine is Idle, the setup frames of a new
\* acquisition being paced out or not, are all dropped by the handler of the readable
\* notification: the port holds nothing afterwards, the state machine and its channel
\* buffers are as before, nothing is written and no frame is emitted
C40_IdleBytesDiscarded ==
    [][(sh.acqState = "Idle" /\ obs'.ev = "DeviceDelivers") =>
          /\ port'.rx = EmptyBuf
          /\ sh' = sh
          /\ port'.out = <<>>
          /\ obs'.frame = NoFrame /\ obs'.start = "none"]_vars

\* bytes have arrived while the setup frames were being paced out and the port is empty
C40_Witness ==
    /\ obs.ev = "DeviceDelivers" /\ obs.delivered > 0
    /\ sh.acqState = "Idle" /\ sh.setupActive
    /\ port.rx = EmptyBuf

====
